---- MODULE Spec2Model ----
(***************************************************************************)
(* Hive: a graph of nodes ("hexes") that agents navigate by intent.        *)
(* Model of src/src/core/hive.ts (class Hive) over the node store of       *)
(* src/src/storage/json-storage.ts.                                        *)
(*                                                                         *)
(* A string is a TLA+ string; CharsOf gives its characters, so that        *)
(* tokenize and startsWith do what the code does, character by character.  *)
(* A JavaScript value is a record [t, num, str, arr, obj] (see VALUES      *)
(* below); objects are finite maps from keys to numbers.                   *)
(* Spec runs sequences of calls on the engine; SpecCall makes one call on   *)
(* arguments drawn from larger sets.                                       *)
(***************************************************************************)
EXTENDS Integers, Sequences, FiniteSets, TLC

VARIABLES
  store,       \* the hex files: node id -> stored hex record
  journeys,    \* Hive.journeys: journey id -> Journey
  journeyLog,  \* the lines of journeys.jsonl, oldest first
  clock,       \* the wall clock read by new Date()
  last         \* the last call made: its arguments and what it returned

vars == <<store, journeys, journeyLog, clock, last>>

Range(s) == {s[i] : i \in 1..Len(s)}

(***************************************************************************)
(* LEXICAL MATCHER                                                         *)
(***************************************************************************)

UpperChars == <<"A","B","C","D","E","F","G","H","I","J","K","L","M",
                "N","O","P","Q","R","S","T","U","V","W","X","Y","Z">>
LowerChars == <<"a","b","c","d","e","f","g","h","i","j","k","l","m",
                "n","o","p","q","r","s","t","u","v","w","x","y","z">>
DigitChars == <<"0","1","2","3","4","5","6","7","8","9">>
\* \s of the regular expressions, over the characters the model's texts use
WhitespaceChars == {" ", "\t", "\n"}

\* String.prototype.toLowerCase, one character
ToLowerChar(c) ==
  IF \E i \in 1..Len(UpperChars) : UpperChars[i] = c
    THEN LowerChars[CHOOSE i \in 1..Len(UpperChars) : UpperChars[i] = c]
    ELSE c

toLowerCase(text) == [i \in 1..Len(text) |-> ToLowerChar(text[i])]

\* .replace(/[^a-z0-9\s]/g, ""): keeps a-z, 0-9 and whitespace
KeptChar(c) == c \in Range(LowerChars) \cup Range(DigitChars) \cup WhitespaceChars

StripChars(text) == SelectSeq(text, KeptChar)

\* .split(/\s+/): the pieces between maximal runs of whitespace, in order; a
\* leading or trailing run leaves an empty piece, and "" splits to [""].
SplitWhitespace(text) ==
  LET n == Len(text)
      IsSpace(i) == text[i] \in WhitespaceChars
      starts == {i \in 1..n : ~IsSpace(i) /\ (i = 1 \/ IsSpace(i - 1))}
      EndOf(i) == CHOOSE j \in i..n :
                    /\ \A k \in i..j : ~IsSpace(k)
                    /\ (j = n \/ IsSpace(j + 1))
      NthStart(k) == CHOOSE i \in starts : Cardinality({j \in starts : j < i}) = k - 1
      words == [k \in 1..Cardinality(starts) |-> SubSeq(text, NthStart(k), EndOf(NthStart(k)))]
  IN IF n = 0 THEN << <<>> >>
     ELSE (IF IsSpace(1) THEN << <<>> >> ELSE <<>>) \o words
            \o (IF IsSpace(n) THEN << <<>> >> ELSE <<>>)

\* the shortest token tokenize keeps is one character longer than this
MinTokenExclusive == 2

LongEnough(w) == Len(w) > MinTokenExclusive

\* tokenize, on the characters of the text
tokenizeChars(chars) ==
  SelectSeq(SplitWhitespace(StripChars(toLowerCase(chars))), LongEnough)

\* the characters of every string the model's texts, tags and destinations use
CharsOf ==
  ("" :> <<>>)
  @@ ("ship it" :> <<"s","h","i","p"," ","i","t">>)
  @@ ("Paint walls" :> <<"P","a","i","n","t"," ","w","a","l","l","s">>)
  @@ ("Deploy the API!" :> <<"D","e","p","l","o","y"," ","t","h","e"," ","A","P","I","!">>)
  @@ ("  UI  button " :> <<" "," ","U","I"," "," ","b","u","t","t","o","n"," ">>)
  @@ ("ship the form" :> <<"s","h","i","p"," ","t","h","e"," ","f","o","r","m">>)
  @@ ("go" :> <<"g","o">>)
  @@ ("beta" :> <<"b","e","t","a">>)
  @@ ("gamma" :> <<"g","a","m","m","a">>)
  @@ ("external:crm" :> <<"e","x","t","e","r","n","a","l",":","c","r","m">>)
  @@ ("external" :> <<"e","x","t","e","r","n","a","l">>)
  @@ ("Deploy Pipeline" :> <<"D","e","p","l","o","y"," ","P","i","p","e","l","i","n","e">>)
  @@ ("Ship releases to production" :> <<"S","h","i","p"," ","r","e","l","e","a","s","e","s"," ","t","o"," ","p","r","o","d","u","c","t","i","o","n">>)
  @@ ("ops" :> <<"o","p","s">>)
  @@ ("CI" :> <<"C","I">>)
  @@ ("deploy the app" :> <<"d","e","p","l","o","y"," ","t","h","e"," ","a","p","p">>)
  @@ ("release checklist" :> <<"r","e","l","e","a","s","e"," ","c","h","e","c","k","l","i","s","t">>)
  @@ ("Button Styles" :> <<"B","u","t","t","o","n"," ","S","t","y","l","e","s">>)
  @@ ("UI" :> <<"U","I">>)
  @@ ("ui" :> <<"u","i">>)
  @@ ("interactive form" :> <<"i","n","t","e","r","a","c","t","i","v","e"," ","f","o","r","m">>)
  @@ ("Interactive FORM!" :> <<"I","n","t","e","r","a","c","t","i","v","e"," ","F","O","R","M","!">>)
  @@ ("Notes" :> <<"N","o","t","e","s">>)
  @@ ("ship to production" :> <<"s","h","i","p"," ","t","o"," ","p","r","o","d","u","c","t","i","o","n">>)
  @@ ("external:" :> <<"e","x","t","e","r","n","a","l",":">>)

\* tokenize over every text of the model, computed once
TokensOf == [text \in DOMAIN CharsOf |-> tokenizeChars(CharsOf[text])] @@ <<>>
tokenize(text) == TokensOf[text]

CONCEPT_MAP ==
  <<
    \* button: interactive, form, click, input, ui, element
    [key |-> <<"b","u","t","t","o","n">>,
     synonyms |-> << <<"i","n","t","e","r","a","c","t","i","v","e">>, <<"f","o","r","m">>, <<"c","l","i","c","k">>, <<"i","n","p","u","t">>, <<"u","i">>, <<"e","l","e","m","e","n","t">> >>],
    \* deploy: ship, ops, launch, release, production, ci, cd
    [key |-> <<"d","e","p","l","o","y">>,
     synonyms |-> << <<"s","h","i","p">>, <<"o","p","s">>, <<"l","a","u","n","c","h">>, <<"r","e","l","e","a","s","e">>, <<"p","r","o","d","u","c","t","i","o","n">>, <<"c","i">>, <<"c","d">> >>],
    \* database: schema, data, table, model, prisma, sql
    [key |-> <<"d","a","t","a","b","a","s","e">>,
     synonyms |-> << <<"s","c","h","e","m","a">>, <<"d","a","t","a">>, <<"t","a","b","l","e">>, <<"m","o","d","e","l">>, <<"p","r","i","s","m","a">>, <<"s","q","l">> >>],
    \* style: css, design, theme, color, token, tailwind
    [key |-> <<"s","t","y","l","e">>,
     synonyms |-> << <<"c","s","s">>, <<"d","e","s","i","g","n">>, <<"t","h","e","m","e">>, <<"c","o","l","o","r">>, <<"t","o","k","e","n">>, <<"t","a","i","l","w","i","n","d">> >>],
    \* auth: login, signup, session, permission, security, authentication
    [key |-> <<"a","u","t","h">>,
     synonyms |-> << <<"l","o","g","i","n">>, <<"s","i","g","n","u","p">>, <<"s","e","s","s","i","o","n">>, <<"p","e","r","m","i","s","s","i","o","n">>, <<"s","e","c","u","r","i","t","y">>, <<"a","u","t","h","e","n","t","i","c","a","t","i","o","n">> >>],
    \* test: qa, quality, check, audit, verify, testing
    [key |-> <<"t","e","s","t">>,
     synonyms |-> << <<"q","a">>, <<"q","u","a","l","i","t","y">>, <<"c","h","e","c","k">>, <<"a","u","d","i","t">>, <<"v","e","r","i","f","y">>, <<"t","e","s","t","i","n","g">> >>],
    \* api: backend, server, endpoint, route, action, rest
    [key |-> <<"a","p","i">>,
     synonyms |-> << <<"b","a","c","k","e","n","d">>, <<"s","e","r","v","e","r">>, <<"e","n","d","p","o","i","n","t">>, <<"r","o","u","t","e">>, <<"a","c","t","i","o","n">>, <<"r","e","s","t">> >>],
    \* layout: spacing, grid, responsive, breakpoint, flex, gap
    [key |-> <<"l","a","y","o","u","t">>,
     synonyms |-> << <<"s","p","a","c","i","n","g">>, <<"g","r","i","d">>, <<"r","e","s","p","o","n","s","i","v","e">>, <<"b","r","e","a","k","p","o","i","n","t">>, <<"f","l","e","x">>, <<"g","a","p">> >>],
    \* text: typography, font, heading, copy, writing
    [key |-> <<"t","e","x","t">>,
     synonyms |-> << <<"t","y","p","o","g","r","a","p","h","y">>, <<"f","o","n","t">>, <<"h","e","a","d","i","n","g">>, <<"c","o","p","y">>, <<"w","r","i","t","i","n","g">> >>],
    \* image: performance, optimization, loading, asset, media
    [key |-> <<"i","m","a","g","e">>,
     synonyms |-> << <<"p","e","r","f","o","r","m","a","n","c","e">>, <<"o","p","t","i","m","i","z","a","t","i","o","n">>, <<"l","o","a","d","i","n","g">>, <<"a","s","s","e","t">>, <<"m","e","d","i","a">> >>],
    \* error: handling, validation, message, boundary, catch
    [key |-> <<"e","r","r","o","r">>,
     synonyms |-> << <<"h","a","n","d","l","i","n","g">>, <<"v","a","l","i","d","a","t","i","o","n">>, <<"m","e","s","s","a","g","e">>, <<"b","o","u","n","d","a","r","y">>, <<"c","a","t","c","h">> >>],
    \* form: input, validation, field, submit, interactive
    [key |-> <<"f","o","r","m">>,
     synonyms |-> << <<"i","n","p","u","t">>, <<"v","a","l","i","d","a","t","i","o","n">>, <<"f","i","e","l","d">>, <<"s","u","b","m","i","t">>, <<"i","n","t","e","r","a","c","t","i","v","e">> >>],
    \* component: ui, element, widget, block, module
    [key |-> <<"c","o","m","p","o","n","e","n","t">>,
     synonyms |-> << <<"u","i">>, <<"e","l","e","m","e","n","t">>, <<"w","i","d","g","e","t">>, <<"b","l","o","c","k">>, <<"m","o","d","u","l","e">> >>],
    \* animation: motion, transition, hover, easing, duration
    [key |-> <<"a","n","i","m","a","t","i","o","n">>,
     synonyms |-> << <<"m","o","t","i","o","n">>, <<"t","r","a","n","s","i","t","i","o","n">>, <<"h","o","v","e","r">>, <<"e","a","s","i","n","g">>, <<"d","u","r","a","t","i","o","n">> >>],
    \* color: theme, palette, token, dark, light, mode
    [key |-> <<"c","o","l","o","r">>,
     synonyms |-> << <<"t","h","e","m","e">>, <<"p","a","l","e","t","t","e">>, <<"t","o","k","e","n">>, <<"d","a","r","k">>, <<"l","i","g","h","t">>, <<"m","o","d","e">> >>],
    \* accessibility: a11y, wcag, aria, screen, reader, keyboard, focus
    [key |-> <<"a","c","c","e","s","s","i","b","i","l","i","t","y">>,
     synonyms |-> << <<"a","1","1","y">>, <<"w","c","a","g">>, <<"a","r","i","a">>, <<"s","c","r","e","e","n">>, <<"r","e","a","d","e","r">>, <<"k","e","y","b","o","a","r","d">>, <<"f","o","c","u","s">> >>],
    \* seo: search, meta, og, social, crawl, sitemap
    [key |-> <<"s","e","o">>,
     synonyms |-> << <<"s","e","a","r","c","h">>, <<"m","e","t","a">>, <<"o","g">>, <<"s","o","c","i","a","l">>, <<"c","r","a","w","l">>, <<"s","i","t","e","m","a","p">> >>],
    \* setup: scaffold, init, initialize, new, project, start
    [key |-> <<"s","e","t","u","p">>,
     synonyms |-> << <<"s","c","a","f","f","o","l","d">>, <<"i","n","i","t">>, <<"i","n","i","t","i","a","l","i","z","e">>, <<"n","e","w">>, <<"p","r","o","j","e","c","t">>, <<"s","t","a","r","t">> >>],
    \* code: typescript, react, standards, patterns, naming
    [key |-> <<"c","o","d","e">>,
     synonyms |-> << <<"t","y","p","e","s","c","r","i","p","t">>, <<"r","e","a","c","t">>, <<"s","t","a","n","d","a","r","d","s">>, <<"p","a","t","t","e","r","n","s">>, <<"n","a","m","i","n","g">> >>],
    \* copy: writing, ux, microcopy, label, message, voice
    [key |-> <<"c","o","p","y">>,
     synonyms |-> << <<"w","r","i","t","i","n","g">>, <<"u","x">>, <<"m","i","c","r","o","c","o","p","y">>, <<"l","a","b","e","l">>, <<"m","e","s","s","a","g","e">>, <<"v","o","i","c","e">> >>]
  >>

\* CONCEPT_MAP[word], when word is a key
IsConceptKey(word) == \E i \in 1..Len(CONCEPT_MAP) : CONCEPT_MAP[i].key = word
ConceptSynonyms(word) ==
  CONCEPT_MAP[CHOOSE i \in 1..Len(CONCEPT_MAP) : CONCEPT_MAP[i].key = word].synonyms

\* a variant that looks the word up among the keys only
ExpandWordAsKeyOnly(word) ==
  IF IsConceptKey(word) THEN Range(ConceptSynonyms(word)) ELSE {}

\* what the loop body adds to `expanded` for one word: the synonyms of the
\* word when it is a key, and the key and synonyms of every entry that lists it
ExpandWord(word) ==
  (IF IsConceptKey(word) THEN Range(ConceptSynonyms(word)) ELSE {})
    \cup UNION {{CONCEPT_MAP[i].key} \cup Range(CONCEPT_MAP[i].synonyms) :
                  i \in {j \in 1..Len(CONCEPT_MAP) : word \in Range(CONCEPT_MAP[j].synonyms)}}

\* the words of the Set `expanded` (Array.from lists each once; no caller
\* reads their order)
expandWithSynonyms(words) ==
  Range(words) \cup UNION {ExpandWord(words[i]) : i \in 1..Len(words)}

\* expandWithSynonyms(tokenize(text)) over every text of the model, computed once
ExpandedOf == [text \in DOMAIN CharsOf |-> expandWithSynonyms(tokenize(text))] @@ <<>>
expandedTokens(text) == ExpandedOf[text]

\* Array.prototype.filter: the elements s[i] for which keep[i], in order
RECURSIVE Filter(_, _)
Filter(s, keep) ==
  IF s = <<>> THEN <<>>
  ELSE (IF Head(keep) THEN <<Head(s)>> ELSE <<>>) \o Filter(Tail(s), Tail(keep))

\* a.filter((w) => setB.has(w)).length
wordOverlap(a, b) == Cardinality({w \in a : w \in b})

(***************************************************************************)
(* VALUES                                                                  *)
(* A JavaScript value of type `unknown` (a payload, contents.data):        *)
(*   t    its kind: "undefined", "null", "number", "string", "array" or    *)
(*        "object" (typeof gives "object" for the last three but "null")   *)
(*   num  the number, str the string, arr the array's elements,            *)
(*   obj  the object's own properties, a map from key to number.           *)
(* The fields a kind does not use are 0, <<>> or the empty map.            *)
(***************************************************************************)

EmptyMap == [k \in {} |-> 0]

Undefined == [t |-> "undefined", num |-> 0, str |-> <<>>, arr |-> <<>>, obj |-> EmptyMap]
Null == [t |-> "null", num |-> 0, str |-> <<>>, arr |-> <<>>, obj |-> EmptyMap]
Num(n) == [t |-> "number", num |-> n, str |-> <<>>, arr |-> <<>>, obj |-> EmptyMap]
Str(s) == [t |-> "string", num |-> 0, str |-> s, arr |-> <<>>, obj |-> EmptyMap]
Arr(a) == [t |-> "array", num |-> 0, str |-> <<>>, arr |-> a, obj |-> EmptyMap]
Obj(m) == [t |-> "object", num |-> 0, str |-> <<>>, arr |-> <<>>, obj |-> m]

\* an optional field of an interface: absent, or present with value v
Absent == [some |-> FALSE, v |-> <<>>]
\* an absent optional string
AbsentText == [some |-> FALSE, v |-> ""]
Some(x) == [some |-> TRUE, v |-> x]

\* ToBoolean of a value: undefined, null, 0 and "" are falsy
Truthy(d) ==
  CASE d.t = "undefined" -> FALSE
    [] d.t = "null" -> FALSE
    [] d.t = "number" -> d.num # 0
    [] d.t = "string" -> d.str # <<>>
    [] OTHER -> TRUE

\* typeof d === "object": true of null and of arrays too
TypeofObject(d) == d.t \in {"null", "array", "object"}

IsArray(d) == d.t = "array"

\* an optional string is truthy when it is present and not empty
TruthyText(o) == o.some /\ o.v # ""

\* the property name of array index i (0-based)
IndexKey(i) == DigitChars[i + 1]
IndexKeys(n) == {IndexKey(i) : i \in 0..(n - 1)}
IndexOfKey(k) == CHOOSE i \in 0..(Len(DigitChars) - 1) : IndexKey(i) = k

\* Object.keys(d): own enumerable property names
ObjectKeys(d) ==
  CASE d.t = "object" -> DOMAIN d.obj
    [] d.t = "array" -> IndexKeys(Len(d.arr))
    [] d.t = "string" -> IndexKeys(Len(d.str))
    [] OTHER -> {}

\* d[key] === value for a number `value`: a character of a string, and a
\* missing property (undefined), are never equal to a number
PropEqualsNum(d, key, value) ==
  CASE d.t = "object" -> key \in DOMAIN d.obj /\ d.obj[key] = value
    [] d.t = "array" -> key \in IndexKeys(Len(d.arr)) /\ d.arr[IndexOfKey(key) + 1] = value
    [] OTHER -> FALSE

\* { ...d } for a d with typeof d === "object": the own properties, an
\* array's elements under their indices, nothing for null
Spread(d) ==
  CASE d.t = "object" -> d.obj
    [] d.t = "array" -> [k \in IndexKeys(Len(d.arr)) |-> d.arr[IndexOfKey(k) + 1]]
    [] OTHER -> EmptyMap

\* { ...f, ...g }
MergeMaps(f, g) ==
  [k \in DOMAIN f \cup DOMAIN g |-> IF k \in DOMAIN g THEN g[k] ELSE f[k]]

MapPut(f, key, value) ==
  [k \in DOMAIN f \cup {key} |-> IF k = key THEN value ELSE f[k]]

\* delete f[key]
MapDelete(f, key) == [k \in DOMAIN f \ {key} |-> f[k]]

(***************************************************************************)
(* CONDITION EVALUATOR                                                     *)
(* condition: [always, intent, hasData, lacks, match] (EdgeCondition), the *)
(*   optional fields as Absent/Some; always is FALSE when absent.          *)
(* context: [intent, payload, origin] (AgentContext); payload is Undefined *)
(*   when absent.                                                          *)
(***************************************************************************)

\* a variant that fails the clause when the context has no intent
IntentClauseFailsStrict(condition, context) ==
  /\ TruthyText(condition.intent)
  /\ \/ ~TruthyText(context.intent)
     \/ wordOverlap(expandedTokens(condition.intent.v),
                    expandedTokens(context.intent.v)) = 0

IntentClauseFails(condition, context) ==
  /\ TruthyText(condition.intent)
  /\ TruthyText(context.intent)
  /\ wordOverlap(expandedTokens(condition.intent.v),
                 expandedTokens(context.intent.v)) = 0

\* a variant that is content with one of the listed keys
HasDataClauseFailsUnlessAny(condition, context) ==
  /\ condition.hasData.some
  /\ Truthy(context.payload)
  /\ ~(\E i \in 1..Len(condition.hasData.v) :
         condition.hasData.v[i] \in ObjectKeys(context.payload))

HasDataClauseFails(condition, context) ==
  /\ condition.hasData.some
  /\ Truthy(context.payload)
  /\ ~(\A i \in 1..Len(condition.hasData.v) :
         condition.hasData.v[i] \in ObjectKeys(context.payload))

\* a variant that wants every listed key missing
LacksClauseFailsUnlessNone(condition, context) ==
  /\ condition.lacks.some
  /\ Truthy(context.payload)
  /\ \E i \in 1..Len(condition.lacks.v) :
       condition.lacks.v[i] \in ObjectKeys(context.payload)

LacksClauseFails(condition, context) ==
  /\ condition.lacks.some
  /\ Truthy(context.payload)
  /\ ~(\E i \in 1..Len(condition.lacks.v) :
         condition.lacks.v[i] \notin ObjectKeys(context.payload))

\* a variant that looks the keys up whether or not there is a payload
MatchClauseFailsWithoutPayload(condition, context) ==
  /\ condition.match.some
  /\ \E k \in DOMAIN condition.match.v :
       ~PropEqualsNum(context.payload, k, condition.match.v[k])

MatchClauseFails(condition, context) ==
  /\ condition.match.some
  /\ Truthy(context.payload)
  /\ \E k \in DOMAIN condition.match.v :
       ~PropEqualsNum(context.payload, k, condition.match.v[k])

\* a variant that looks at `always` only after the other clauses
evaluateConditionAlwaysLast(condition, context) ==
  IF IntentClauseFails(condition, context) THEN FALSE
  ELSE IF HasDataClauseFails(condition, context) THEN FALSE
  ELSE IF LacksClauseFails(condition, context) THEN FALSE
  ELSE IF MatchClauseFails(condition, context) THEN FALSE
  ELSE TRUE

evaluateCondition(condition, context) ==
  IF condition.always THEN TRUE
  ELSE IF IntentClauseFails(condition, context) THEN FALSE
  ELSE IF HasDataClauseFails(condition, context) THEN FALSE
  ELSE IF LacksClauseFails(condition, context) THEN FALSE
  ELSE IF MatchClauseFails(condition, context) THEN FALSE
  ELSE TRUE

(***************************************************************************)
(* TRANSFORM PIPELINE                                                      *)
(* transform: [pick, omit, rename, inject] (EdgeTransform), each optional; *)
(* pick and omit are key lists, rename is the list of its <<from, to>>     *)
(* entries in insertion order, inject a map.                               *)
(***************************************************************************)

\* if (transform.pick) { picked = the listed keys that are in result }
PickStep(result, transform) ==
  IF transform.pick.some
    THEN [k \in Range(transform.pick.v) \cap DOMAIN result |-> result[k]]
    ELSE result

\* if (transform.omit) { delete result[key] for each listed key }
OmitStep(result, transform) ==
  IF transform.omit.some
    THEN [k \in DOMAIN result \ Range(transform.omit.v) |-> result[k]]
    ELSE result

\* one entry of the rename loop
RenameOne(result, from, to) ==
  IF from \in DOMAIN result
    THEN MapDelete(MapPut(result, to, result[from]), from)
    ELSE result

RECURSIVE RenameAll(_, _)
RenameAll(result, entries) ==
  IF entries = <<>> THEN result
  ELSE RenameAll(RenameOne(result, Head(entries)[1], Head(entries)[2]), Tail(entries))

RenameStep(result, transform) ==
  IF transform.rename.some THEN RenameAll(result, transform.rename.v) ELSE result

\* if (transform.inject) { result = { ...result, ...transform.inject } }
InjectStep(result, transform) ==
  IF transform.inject.some THEN MergeMaps(result, transform.inject.v) ELSE result

\* applyTransform by the objects it touches: caller is the caller's payload
\* object, result the object `result` is bound to, aliased whether the two
\* are one object. `result = ...` binds a new object; delete and
\* result[to] = ... write to the object bound.
HeapAssign(h, map) == [h EXCEPT !.result = map, !.aliased = FALSE]
HeapWrite(h, map) ==
  [h EXCEPT !.result = map, !.caller = IF h.aliased THEN map ELSE @]

\* a variant that binds result to the caller's object itself
WorkOnCallerObject(payload) ==
  [caller |-> Spread(payload), result |-> Spread(payload), aliased |-> TRUE]

\* let result = { ...payload }
CopyOnEntry(payload) ==
  [caller |-> Spread(payload), result |-> Spread(payload), aliased |-> FALSE]

transformHeap(payload, transform) ==
  LET entered == CopyOnEntry(payload)
      picked == IF transform.pick.some
                  THEN HeapAssign(entered, PickStep(entered.result, transform))
                  ELSE entered
      omitted == HeapWrite(picked, OmitStep(picked.result, transform))
      renamed == HeapWrite(omitted, RenameStep(omitted.result, transform))
  IN IF transform.inject.some
       THEN HeapAssign(renamed, InjectStep(renamed.result, transform))
       ELSE renamed

\* the caller's payload once applyTransform has returned
CallerPayloadAfter(payload, transform) ==
  IF ~Truthy(payload) \/ ~TypeofObject(payload) THEN payload
  ELSE IF transformHeap(payload, transform).caller = Spread(payload) THEN payload
  ELSE Obj(transformHeap(payload, transform).caller)

\* whether the value returned is the very object the caller passed
ReturnsCallerObject(payload, transform) ==
  IF ~Truthy(payload) \/ ~TypeofObject(payload) THEN FALSE
  ELSE transformHeap(payload, transform).aliased

\* a variant that renames before it picks and omits
applyTransformRenameFirst(payload, transform) ==
  IF ~Truthy(payload) \/ ~TypeofObject(payload) THEN payload
  ELSE Obj(InjectStep(OmitStep(PickStep(RenameStep(Spread(payload), transform),
                                        transform), transform), transform))

applyTransform(payload, transform) ==
  IF ~Truthy(payload) \/ ~TypeofObject(payload) THEN payload
  ELSE Obj(InjectStep(RenameStep(OmitStep(PickStep(Spread(payload), transform),
                                          transform), transform), transform))

(***************************************************************************)
(* DEPOSIT'S MERGE                                                         *)
(***************************************************************************)

\* the new contents.data, from the existing data and the deposited data
mergeData(existingData, data) ==
  IF IsArray(existingData) /\ IsArray(data)
    THEN Arr(existingData.arr \o data.arr)
  ELSE IF TypeofObject(existingData) /\ TypeofObject(data)
    THEN Obj(MergeMaps(Spread(existingData), Spread(data)))
  ELSE data

(***************************************************************************)
(* NODE STORE (HiveStorage)                                                *)
(* store maps the id of every hex file to its record; a record read back   *)
(* is the record saved (JSON.stringify, JSON.parse and the schema keep     *)
(* every field the model carries).                                         *)
(* hex: [id, name, type, description, tags, entryHints, edges, contents,   *)
(*       created, updated]; edge: [id, to, when, transform, priority].     *)
(***************************************************************************)

NullHex == [found |-> FALSE, hex |-> <<>>]

\* HiveStorage.getHex: the record, or null when there is no file for the id
getHex(st, id) ==
  IF id \in DOMAIN st THEN [found |-> TRUE, hex |-> st[id]] ELSE NullHex

\* HiveStorage.saveHex: writes the file of hex.id, whole
saveHex(st, hex) == [k \in DOMAIN st \cup {hex.id} |-> IF k = hex.id THEN hex ELSE st[k]]

(***************************************************************************)
(* QUERY                                                                   *)
(* Scores are kept in tenths: 1 point is 10, 0.5 is 5, 0.3 is 3.           *)
(***************************************************************************)

HintPointTenths == 10
NamePointTenths == 5
DescPointTenths == 3
TagPointTenths == 5
DefaultQueryLimit == 5

RECURSIVE SumSeq(_)
SumSeq(s) == IF s = <<>> THEN 0 ELSE Head(s) + SumSeq(Tail(s))

HintOverlap(expandedIntent, hint) ==
  wordOverlap(expandedIntent, expandedTokens(hint))

\* the hints loop: matchedHints, in entryHints order
MatchedHints(hex, expandedIntent) ==
  Filter(hex.entryHints,
         [i \in 1..Len(hex.entryHints) |->
            HintOverlap(expandedIntent, hex.entryHints[i]) > 0])

\* the hints loop: score += overlap for every hint with overlap > 0
HintsScore(hex, expandedIntent) ==
  SumSeq([i \in 1..Len(hex.entryHints) |->
            IF HintOverlap(expandedIntent, hex.entryHints[i]) > 0
              THEN HintOverlap(expandedIntent, hex.entryHints[i]) * HintPointTenths
              ELSE 0])

NameScore(hex, expandedIntent) ==
  wordOverlap(expandedIntent, expandedTokens(hex.name)) * NamePointTenths

\* an empty description is falsy and scores nothing
DescScore(hex, expandedIntent) ==
  IF TruthyText(hex.description)
    THEN wordOverlap(expandedIntent,
                     expandedTokens(hex.description.v)) * DescPointTenths
    ELSE 0

TagsScore(hex, expandedIntent) ==
  SumSeq([i \in 1..Len(hex.tags) |->
            IF toLowerCase(CharsOf[hex.tags[i]]) \in expandedIntent THEN TagPointTenths ELSE 0])

ScoreOf(hex, expandedIntent) ==
  HintsScore(hex, expandedIntent) + NameScore(hex, expandedIntent)
    + DescScore(hex, expandedIntent) + TagsScore(hex, expandedIntent)

\* a variant that lets a score of 0 through
ScoredAtLeastZero(score) == score >= 0

\* if (score > 0) results.push(...)
ScoredEnough(score) == score > 0

QueryResultOf(hex, expandedIntent) ==
  [hex |-> hex, score |-> ScoreOf(hex, expandedIntent),
   matchedHints |-> MatchedHints(hex, expandedIntent)]

\* the loop over hexes: one result per hex that scored, in the order read
ScoredResults(hexes, intent) ==
  LET expandedIntent == expandedTokens(intent)
      all == [i \in 1..Len(hexes) |-> QueryResultOf(hexes[i], expandedIntent)]
  IN Filter(all, [i \in 1..Len(all) |-> ScoredEnough(all[i].score)])

\* Array.prototype.sort with (a, b) => key(b) - key(a): stable, larger keys
\* first.  keys[i] is the key of items[i].
SortDescending(items, keys) ==
  LET pos(i) == 1 + Cardinality({j \in 1..Len(items) :
                      keys[j] > keys[i] \/ (keys[j] = keys[i] /\ j < i)})
  IN [p \in 1..Len(items) |-> items[CHOOSE i \in 1..Len(items) : pos(i) = p]]

RankResults(results) ==
  SortDescending(results, [i \in 1..Len(results) |-> results[i].score])

\* Array.prototype.slice(0, end) for an integer end: a negative end counts
\* from the end of the array
SliceTo(s, end) ==
  LET e == IF end < 0 THEN (IF Len(s) + end < 0 THEN 0 ELSE Len(s) + end)
           ELSE (IF end > Len(s) THEN Len(s) ELSE end)
  IN SubSeq(s, 1, e)

\* Hive.query over the hexes getAllHexes returned; limit is Absent or Some(n)
query(hexes, intent, limit) ==
  SliceTo(RankResults(ScoredResults(hexes, intent)),
          IF limit.some THEN limit.v ELSE DefaultQueryLimit)

(***************************************************************************)
(* NEXT STEPS and TRAVERSE                                                 *)
(***************************************************************************)

\* a variant without the colon
ExternalWord == "external"

ExternalPrefix == "external:"

\* String.prototype.startsWith
startsWith(text, prefix) ==
  /\ Len(CharsOf[text]) >= Len(CharsOf[prefix])
  /\ SubSeq(CharsOf[text], 1, Len(CharsOf[prefix])) = CharsOf[prefix]

MatchingEdges(hex, context) ==
  Filter(hex.edges,
         [i \in 1..Len(hex.edges) |-> evaluateCondition(hex.edges[i].when, context)])

\* a variant that leaves the matching edges in their stored order
SortByPriorityKeepOrder(edges) == edges

SortByPriority(edges) ==
  SortDescending(edges, [i \in 1..Len(edges) |-> edges[i].priority])

\* Hive.nextSteps
nextSteps(st, hexId, context) ==
  LET got == getHex(st, hexId)
  IN IF ~got.found THEN <<>> ELSE SortByPriority(MatchingEdges(got.hex, context))

\* hex.edges.find((e) => e.id === edgeId): the first such edge
HasEdge(hex, edgeId) == \E i \in 1..Len(hex.edges) : hex.edges[i].id = edgeId
\* a variant that takes the last edge of that id
FindEdgeLast(hex, edgeId) ==
  hex.edges[CHOOSE i \in 1..Len(hex.edges) :
              /\ hex.edges[i].id = edgeId
              /\ \A j \in (i + 1)..Len(hex.edges) : hex.edges[j].id # edgeId]

FindEdge(hex, edgeId) ==
  hex.edges[CHOOSE i \in 1..Len(hex.edges) :
              /\ hex.edges[i].id = edgeId
              /\ \A j \in 1..(i - 1) : hex.edges[j].id # edgeId]

NoError == "(none)"
NoExternal == "(absent)"

\* a variant that never reports the destination
TraverseFailureBlank(destination, error) ==
  [success |-> FALSE, destination |-> "", payload |-> Undefined,
   external |-> "(absent)", error |-> error]

TraverseFailure(destination, error) ==
  [success |-> FALSE, destination |-> destination, payload |-> Undefined,
   external |-> NoExternal, error |-> error]

\* the payload a successful traverse carries across the edge
TraversePayload(edge, context) ==
  IF edge.transform.some
    THEN applyTransform(context.payload, edge.transform.v)
    ELSE context.payload

IsExternal(edge) == IF startsWith(edge.to, ExternalPrefix) THEN "true" ELSE "false"

TraverseSuccess(edge, context) ==
  [success |-> TRUE, destination |-> edge.to, payload |-> TraversePayload(edge, context),
   external |-> IsExternal(edge), error |-> NoError]

\* a variant that trusts the caller and does not evaluate the guard again
traverseResultUnguarded(st, fromHexId, edgeId, context) ==
  LET got == getHex(st, fromHexId)
  IN IF ~got.found THEN TraverseFailure("", "Source hex not found")
     ELSE IF ~HasEdge(got.hex, edgeId) THEN TraverseFailure("", "Edge not found")
     ELSE TraverseSuccess(FindEdge(got.hex, edgeId), context)

\* what Hive.traverse returns
traverseResult(st, fromHexId, edgeId, context) ==
  LET got == getHex(st, fromHexId)
  IN IF ~got.found THEN TraverseFailure("", "Source hex not found")
     ELSE IF ~HasEdge(got.hex, edgeId) THEN TraverseFailure("", "Edge not found")
     ELSE IF ~evaluateCondition(FindEdge(got.hex, edgeId).when, context)
       THEN TraverseFailure(FindEdge(got.hex, edgeId).to, "Edge condition not met")
     ELSE TraverseSuccess(FindEdge(got.hex, edgeId), context)

(***************************************************************************)
(* JOURNEY RECORDER                                                        *)
(* step: [hexId, action, timestamp, edgeId, payload] (JourneyStep)         *)
(***************************************************************************)

AnonymousId == "anonymous"
NoEdgeId == "(none)"

\* context.origin || "anonymous"
JourneyIdOf(context) ==
  IF context.origin.some /\ context.origin.v # "" THEN context.origin.v ELSE AnonymousId

\* a variant that starts the journey afresh on every step
RecordInMemoryAfresh(js, context, step, now) ==
  LET journeyId == JourneyIdOf(context)
  IN [k \in DOMAIN js \cup {journeyId} |->
        IF k = journeyId
          THEN [id |-> journeyId, agentId |-> journeyId, started |-> now,
                steps |-> <<step>>, status |-> "active"]
          ELSE js[k]]

\* the in-memory half of logStep
RecordInMemory(js, context, step, now) ==
  LET journeyId == JourneyIdOf(context)
      had == IF journeyId \in DOMAIN js
               THEN js[journeyId]
               ELSE [id |-> journeyId, agentId |-> journeyId, started |-> now,
                     steps |-> <<>>, status |-> "active"]
      grown == [had EXCEPT !.steps = Append(had.steps, step)]
  IN [k \in DOMAIN js \cup {journeyId} |-> IF k = journeyId THEN grown ELSE js[k]]

\* the line logStep appends: the step and its journey id
LogEntry(context, step) ==
  [hexId |-> step.hexId, action |-> step.action, timestamp |-> step.timestamp,
   edgeId |-> step.edgeId, payload |-> step.payload, journeyId |-> JourneyIdOf(context)]

\* a variant that writes the file anew with the one line
AppendToLogOverwriting(log, context, step, appendOk) ==
  IF appendOk THEN <<LogEntry(context, step)>> ELSE log

\* the durable half of logStep: appendFile, whose failure is swallowed
AppendToLog(log, context, step, appendOk) ==
  IF appendOk THEN Append(log, LogEntry(context, step)) ELSE log

DefaultLogLimit == 100

\* JSON.parse(JSON.stringify(d)) for a value of the model: a property whose
\* value is undefined is left out and so reads back as undefined; null,
\* numbers, strings, arrays of numbers and maps to numbers read back as written
JsonRoundTrip(d) ==
  CASE d.t = "undefined" -> Undefined
    [] d.t = "null" -> Null
    [] d.t = "number" -> Num(d.num)
    [] d.t = "string" -> Str(d.str)
    [] d.t = "array" -> Arr(d.arr)
    [] OTHER -> Obj(d.obj)

\* a line of journeys.jsonl, parsed
ParsedEntry(entry) == [entry EXCEPT !.payload = JsonRoundTrip(entry.payload)]

\* Array.prototype.slice(start) for an integer start: a negative start counts
\* from the end of the array, and -0 is 0
SliceFrom(s, start) ==
  LET b == IF start < 0 THEN (IF Len(s) + start < 0 THEN 0 ELSE Len(s) + start)
           ELSE (IF start > Len(s) THEN Len(s) ELSE start)
  IN SubSeq(s, b + 1, Len(s))

\* Hive.getJourneyLog over the lines of the log (no lines: the file is missing
\* or empty, and both give []); limit is AbsentNum or Some(n)
getJourneyLog(log, limit) ==
  SliceFrom([i \in 1..Len(log) |-> ParsedEntry(log[i])],
            0 - (IF limit.some THEN limit.v ELSE DefaultLogLimit))

\* a variant that lets appendFile's rejection out of logStep
logStepRejectsWithAppend(appendOk) == ~appendOk

\* whether logStep rejects: its catch block is empty, so it never does,
\* whether appendFile succeeded (appendOk) or not
logStepRejects(appendOk) == FALSE

\* how a call that ran to its logStep (logged) or past the place of it ends
OutcomeAfterLog(logged, appendOk) ==
  IF logged /\ logStepRejects(appendOk) THEN "threw" ELSE "returned"

(***************************************************************************)
(* BOUNDS AND INPUTS                                                       *)
(***************************************************************************)

\* steps recorded over a run (the in-memory journeys hold at most this many)
MaxSteps == 1
\* the wall clock runs from 0 to MaxClock
MaxClock == 1
\* longest array a deposit may build
MaxArrayLen == 3

NoCondition == [always |-> FALSE, intent |-> AbsentText, hasData |-> Absent,
                lacks |-> Absent, match |-> Absent]
NoTransform == [pick |-> Absent, omit |-> Absent, rename |-> Absent, inject |-> Absent]

TextShipIt == "ship it"
TextPaintWalls == "Paint walls"
TextDeployApi == "Deploy the API!"
TextUiButton == "  UI  button "
TextShipForm == "ship the form"
TextGo == "go"

EdgeShip ==
  [id |-> "ship", to |-> "beta",
   when |-> [NoCondition EXCEPT !.intent = Some(TextShipIt)],
   transform |-> Absent, priority |-> 5]
EdgeCrm ==
  [id |-> "crm", to |-> "external:crm",
   when |-> [NoCondition EXCEPT !.hasData = Some(<<"a", "b">>)],
   transform |-> Some([NoTransform EXCEPT !.pick = Some(<<"a", "b">>),
                                          !.rename = Some(<< <<"a", "x">> >>),
                                          !.inject = Some([y |-> 9])]),
   priority |-> 10]
EdgeOpen ==
  [id |-> "open", to |-> "external",
   when |-> [NoCondition EXCEPT !.always = TRUE, !.hasData = Some(<<"z">>)],
   transform |-> Some([NoTransform EXCEPT !.omit = Some(<<"a">>)]),
   priority |-> 5]
\* a second edge under the id "ship": find takes the first
EdgeShipAgain ==
  [id |-> "ship", to |-> "gamma",
   when |-> [NoCondition EXCEPT !.lacks = Some(<<"a">>)],
   transform |-> Absent, priority |-> 1]

HexAlpha ==
  [id |-> "alpha", name |-> "Deploy Pipeline", type |-> "junction",
   description |-> Some("Ship releases to production"),
   tags |-> << "ops", "CI" >>,
   entryHints |-> << "deploy the app", "release checklist" >>,
   edges |-> <<EdgeShip, EdgeCrm, EdgeOpen, EdgeShipAgain>>,
   contents |-> [data |-> Obj([x |-> 1])],
   created |-> 0, updated |-> 0]
HexBeta ==
  [id |-> "beta", name |-> "Button Styles", type |-> "data",
   description |-> AbsentText,
   tags |-> << "UI" >>,
   entryHints |-> << "interactive form" >>,
   edges |-> <<>>,
   contents |-> [data |-> Arr(<<1, 2>>)],
   created |-> 0, updated |-> 0]
\* scores what HexBeta scores: a tie
HexGamma ==
  [id |-> "gamma", name |-> "Button Styles", type |-> "data",
   description |-> Some(""),
   tags |-> << "ui" >>,
   entryHints |-> << "Interactive FORM!" >>,
   edges |-> <<>>,
   contents |-> [data |-> Null],
   created |-> 0, updated |-> 0]
HexDelta ==
  [id |-> "delta", name |-> "Notes", type |-> "data",
   description |-> AbsentText,
   tags |-> <<>>,
   entryHints |-> << "ship to production" >>,
   edges |-> <<>>,
   contents |-> [data |-> Undefined],
   created |-> 0, updated |-> 0]

StoreOf(hexes) == [id \in {h.id : h \in hexes} |-> CHOOSE h \in hexes : h.id = id]

\* the store the engine starts from
InitialStore == StoreOf({HexAlpha, HexBeta})

\* ids callers pass: the stored ones and one that names no hex
CallHexIds == {"alpha", "ghost"}
CallEdgeIds == {"crm", "nope"}

CtxScout ==
  [intent |-> Some(TextShipIt), payload |-> Obj([a |-> 1, b |-> 2]),
   origin |-> [some |-> TRUE, v |-> "scout"]]
CtxBare ==
  [intent |-> AbsentText, payload |-> Obj([a |-> 1]), origin |-> AbsentText]
Contexts == {CtxScout, CtxBare}

\* an optional context argument
NoContext == [some |-> FALSE, v |-> CtxBare]
OptContexts == {NoContext, [some |-> TRUE, v |-> CtxScout]}

DepositData == {Obj([y |-> 2])}

QueryIntents == {TextShipForm}
\* an optional number
AbsentNum == [some |-> FALSE, v |-> 0]
QueryLimits == {AbsentNum, Some(1)}
LogLimits == {AbsentNum}

\* every order in which readdir may list the files of the stored hexes
Orderings(ids) ==
  {o \in [1..Cardinality(ids) -> ids] : \A i, j \in DOMAIN o : i # j => o[i] # o[j]}

\* HiveStorage.getAllHexes, the files listed in the order o
getAllHexes(st, o) == [i \in DOMAIN o |-> st[o[i]]]

(***************************************************************************)
(* THE ENGINE: one action per call on Hive                                 *)
(***************************************************************************)

StepsHeld(js) ==
  LET RECURSIVE Count(_)
      Count(ids) == IF ids = {} THEN 0
                    ELSE LET id == CHOOSE x \in ids : TRUE
                         IN Len(js[id].steps) + Count(ids \ {id})
  IN Count(DOMAIN js)

Init ==
  /\ store = InitialStore
  /\ journeys = EmptyMap
  /\ journeyLog = <<>>
  /\ clock = 0
  /\ last = [op |-> "none"]

\* time passes
Tick ==
  /\ clock < MaxClock
  /\ clock' = clock + 1
  /\ UNCHANGED <<store, journeys, journeyLog, last>>

\* a variant that records a "query" step for the anonymous journey
QueryRecordingStep(intent, limit, order) ==
  LET step == [hexId |-> "", action |-> "query", timestamp |-> clock,
               edgeId |-> NoEdgeId, payload |-> Str(intent)]
  IN /\ last' = [op |-> "query", intent |-> intent, limit |-> limit,
                 hexes |-> getAllHexes(store, order),
                 result |-> query(getAllHexes(store, order), intent, limit)]
     /\ journeys' = RecordInMemory(journeys, CtxBare, step, clock)
     /\ journeyLog' = AppendToLog(journeyLog, CtxBare, step, TRUE)
     /\ StepsHeld(journeys') <= MaxSteps
     /\ UNCHANGED <<store, clock>>

Query(intent, limit, order) ==
  /\ last' = [op |-> "query", intent |-> intent, limit |-> limit,
              hexes |-> getAllHexes(store, order),
              result |-> query(getAllHexes(store, order), intent, limit)]
  /\ UNCHANGED <<store, journeys, journeyLog, clock>>

NextSteps(hexId, context) ==
  /\ last' = [op |-> "nextSteps", hexId |-> hexId, context |-> context,
              result |-> nextSteps(store, hexId, context)]
  /\ UNCHANGED <<store, journeys, journeyLog, clock>>

\* the steps held stay within the bound of a run
WithinBudget == StepsHeld(journeys) <= MaxSteps

GetJourneyLog(limit) ==
  /\ last' = [op |-> "getJourneyLog", limit |-> limit,
              result |-> getJourneyLog(journeyLog, limit)]
  /\ UNCHANGED <<store, journeys, journeyLog, clock>>

\* logStep, for the step of a call
LogStep(context, step, appendOk) ==
  /\ journeys' = RecordInMemory(journeys, context, step, clock)
  /\ journeyLog' = AppendToLog(journeyLog, context, step, appendOk)

\* a variant that logs the visit whether or not the hex was found
EnterLoggingUnfound(hexId, context, appendOk) ==
  LET got == getHex(store, hexId)
  IN /\ IF context.some
          THEN LogStep(context.v,
                       [hexId |-> hexId, action |-> "enter", timestamp |-> clock,
                        edgeId |-> NoEdgeId, payload |-> context.v.payload],
                       appendOk)
          ELSE appendOk /\ UNCHANGED <<journeys, journeyLog>>
     /\ last' = [op |-> "enter", hexId |-> hexId, context |-> context,
                 appendOk |-> appendOk,
                 outcome |-> OutcomeAfterLog(context.some, appendOk),
                 result |-> got]
     /\ UNCHANGED <<store, clock>>

\* a variant that logs the step without the payload
EnterLoggingBare(hexId, context, appendOk) ==
  LET got == getHex(store, hexId)
  IN /\ IF got.found /\ context.some
          THEN LogStep(context.v,
                       [hexId |-> hexId, action |-> "enter", timestamp |-> clock,
                        edgeId |-> NoEdgeId, payload |-> Undefined],
                       appendOk)
          ELSE appendOk /\ UNCHANGED <<journeys, journeyLog>>
     /\ last' = [op |-> "enter", hexId |-> hexId, context |-> context,
                 appendOk |-> appendOk,
                 outcome |-> OutcomeAfterLog(got.found /\ context.some, appendOk),
                 result |-> got]
     /\ UNCHANGED <<store, clock>>

Enter(hexId, context, appendOk) ==
  LET got == getHex(store, hexId)
  IN /\ IF got.found /\ context.some
          THEN LogStep(context.v,
                       [hexId |-> hexId, action |-> "enter", timestamp |-> clock,
                        edgeId |-> NoEdgeId, payload |-> context.v.payload],
                       appendOk)
          ELSE appendOk /\ UNCHANGED <<journeys, journeyLog>>
     /\ last' = [op |-> "enter", hexId |-> hexId, context |-> context,
                 appendOk |-> appendOk,
                 outcome |-> OutcomeAfterLog(got.found /\ context.some, appendOk),
                 result |-> got]
     /\ UNCHANGED <<store, clock>>

\* history: the ids of the edges the call just before this one returned, when
\* that call was nextSteps on the same hex (empty otherwise)
OfferedBefore(hexId) ==
  IF last.op = "nextSteps" /\ last.hexId = hexId
    THEN {last.result[i].id : i \in 1..Len(last.result)}
    ELSE {}

\* a variant that logs the payload as the caller passed it
TraverseLoggingInput(fromHexId, edgeId, context, appendOk) ==
  LET result == traverseResult(store, fromHexId, edgeId, context)
  IN /\ IF result.success
          THEN LogStep(context,
                       [hexId |-> fromHexId, action |-> "exit", timestamp |-> clock,
                        edgeId |-> edgeId, payload |-> context.payload],
                       appendOk)
          ELSE appendOk /\ UNCHANGED <<journeys, journeyLog>>
     /\ last' = [op |-> "traverse", hexId |-> fromHexId, edgeId |-> edgeId,
                 context |-> context, appendOk |-> appendOk,
                 outcome |-> OutcomeAfterLog(result.success, appendOk),
                 result |-> result,
                 offered |-> OfferedBefore(fromHexId)]
     /\ UNCHANGED <<store, clock>>

Traverse(fromHexId, edgeId, context, appendOk) ==
  LET result == traverseResult(store, fromHexId, edgeId, context)
  IN /\ IF result.success
          THEN LogStep(context,
                       [hexId |-> fromHexId, action |-> "exit", timestamp |-> clock,
                        edgeId |-> edgeId, payload |-> result.payload],
                       appendOk)
          ELSE appendOk /\ UNCHANGED <<journeys, journeyLog>>
     /\ last' = [op |-> "traverse", hexId |-> fromHexId, edgeId |-> edgeId,
                 context |-> context, appendOk |-> appendOk,
                 outcome |-> OutcomeAfterLog(result.success, appendOk),
                 result |-> result,
                 offered |-> OfferedBefore(fromHexId)]
     /\ UNCHANGED <<store, clock>>

\* a variant that stamps the hex as newly created
DepositedHexCreatedAnew(hex, data, now) ==
  [hex EXCEPT !.contents.data = mergeData(hex.contents.data, data),
              !.created = now, !.updated = now]

\* the hex deposit saves
DepositedHex(hex, data, now) ==
  [hex EXCEPT !.contents.data = mergeData(hex.contents.data, data), !.updated = now]

\* a variant that catches the rejected write and carries on as after a save
DepositSwallowingSave(hexId, data, context, saveOk, appendOk) ==
  LET got == getHex(store, hexId)
  IN IF ~got.found
       THEN /\ saveOk /\ appendOk
            /\ last' = [op |-> "deposit", hexId |-> hexId, data |-> data,
                        context |-> context, before |-> got, saveOk |-> saveOk,
                        appendOk |-> appendOk, outcome |-> "returned",
                        result |-> FALSE]
            /\ UNCHANGED <<store, journeys, journeyLog, clock>>
     ELSE /\ Len(DepositedHex(got.hex, data, clock).contents.data.arr) <= MaxArrayLen
          /\ store' = IF saveOk THEN saveHex(store, DepositedHex(got.hex, data, clock))
                                ELSE store
          /\ IF context.some
               THEN LogStep(context.v,
                            [hexId |-> hexId, action |-> "deposit", timestamp |-> clock,
                             edgeId |-> NoEdgeId, payload |-> data],
                            appendOk)
               ELSE appendOk /\ UNCHANGED <<journeys, journeyLog>>
          /\ last' = [op |-> "deposit", hexId |-> hexId, data |-> data,
                      context |-> context, before |-> got, saveOk |-> saveOk,
                      appendOk |-> appendOk, outcome |-> "returned", result |-> TRUE]
          /\ UNCHANGED clock

Deposit(hexId, data, context, saveOk, appendOk) ==
  LET got == getHex(store, hexId)
  IN IF ~got.found
       THEN /\ saveOk /\ appendOk
            /\ last' = [op |-> "deposit", hexId |-> hexId, data |-> data,
                        context |-> context, before |-> got, saveOk |-> saveOk,
                        appendOk |-> appendOk, outcome |-> "returned",
                        result |-> FALSE]
            /\ UNCHANGED <<store, journeys, journeyLog, clock>>
     ELSE IF ~saveOk
       \* writeFile rejects: deposit throws before it logs
       THEN /\ appendOk
            /\ last' = [op |-> "deposit", hexId |-> hexId, data |-> data,
                        context |-> context, before |-> got, saveOk |-> saveOk,
                        appendOk |-> appendOk, outcome |-> "threw",
                        result |-> FALSE]
            /\ UNCHANGED <<store, journeys, journeyLog, clock>>
     ELSE /\ Len(DepositedHex(got.hex, data, clock).contents.data.arr) <= MaxArrayLen
          /\ store' = saveHex(store, DepositedHex(got.hex, data, clock))
          /\ IF context.some
               THEN LogStep(context.v,
                            [hexId |-> hexId, action |-> "deposit", timestamp |-> clock,
                             edgeId |-> NoEdgeId, payload |-> data],
                            appendOk)
               ELSE appendOk /\ UNCHANGED <<journeys, journeyLog>>
          /\ last' = [op |-> "deposit", hexId |-> hexId, data |-> data,
                      context |-> context, before |-> got, saveOk |-> saveOk,
                      appendOk |-> appendOk,
                      outcome |-> OutcomeAfterLog(context.some, appendOk),
                      result |-> OutcomeAfterLog(context.some, appendOk) = "returned"]
          /\ UNCHANGED clock

\* Hive.createHex: stamps the hex and saves it; a rejected write leaves the
\* call by exception. The warnings about edge targets go to the console only.
CreatedHex(hex, now) == [hex EXCEPT !.created = now, !.updated = now]

CreateHex(hex, saveOk) ==
  /\ store' = IF saveOk THEN saveHex(store, CreatedHex(hex, clock)) ELSE store
  /\ last' = [op |-> "createHex", hexId |-> hex.id, saveOk |-> saveOk,
              outcome |-> IF saveOk THEN "returned" ELSE "threw",
              result |-> IF saveOk THEN [found |-> TRUE, hex |-> CreatedHex(hex, clock)]
                                   ELSE NullHex]
  /\ UNCHANGED <<journeys, journeyLog, clock>>

Next ==
  \/ Tick
  \/ \E intent \in QueryIntents, limit \in QueryLimits, order \in Orderings(DOMAIN store) :
       Query(intent, limit, order)
  \/ \E hexId \in CallHexIds, context \in Contexts : NextSteps(hexId, context)
  \/ \E limit \in LogLimits : GetJourneyLog(limit)
  \/ \E hexId \in CallHexIds, context \in OptContexts, appendOk \in BOOLEAN :
       Enter(hexId, context, appendOk) /\ WithinBudget'
  \/ \E hexId \in CallHexIds, edgeId \in CallEdgeIds, context \in Contexts,
        appendOk \in BOOLEAN :
       Traverse(hexId, edgeId, context, appendOk) /\ WithinBudget'
  \/ \E hexId \in CallHexIds, data \in DepositData, context \in OptContexts,
        saveOk \in BOOLEAN, appendOk \in BOOLEAN :
       Deposit(hexId, data, context, saveOk, appendOk) /\ WithinBudget'

Spec == Init /\ [][Next]_vars

(***************************************************************************)
(* SINGLE CALLS                                                            *)
(* SpecCall draws a store and one call in its initial state (last.op is    *)
(* "pending", last.fn names the function, the other fields of last are its *)
(* arguments) and makes that call.  The private functions                  *)
(* evaluateCondition and applyTransform are called here as well, on        *)
(* arguments an edge could hand them.                                      *)
(***************************************************************************)

KeyLists == {Absent, Some(<<"a">>), Some(<<"a", "b">>), Some(<<"c", "a">>)}

CallConditionIntents == {AbsentText, Some(""), Some(TextShipIt), Some(TextGo)}
CallConditionMatches ==
  {Absent, Some([a |-> 1]), Some([a |-> 1, b |-> 2]), Some([c |-> 3])}
CallConditions ==
  {[always |-> always, intent |-> intent, hasData |-> hasData, lacks |-> lacks,
    match |-> match] :
     always \in BOOLEAN, intent \in CallConditionIntents, hasData \in KeyLists,
     lacks \in KeyLists, match \in CallConditionMatches}

CallPayloads ==
  {Undefined, Null, Num(0), Num(7), Str(<<>>), Str(<<"a", "b">>), Arr(<<1>>),
   Obj(EmptyMap), Obj([a |-> 1]), Obj([a |-> 1, b |-> 2]), Obj([a |-> 2, b |-> 2]),
   Obj([a |-> 1, b |-> 2, c |-> 3]), Obj([x |-> 5, y |-> 6, a |-> 1])}
CallContextIntents == {AbsentText, Some(""), Some(TextDeployApi), Some(TextPaintWalls)}
CallOrigins == {AbsentText, Some(""), Some("scout")}

\* the contexts evaluateCondition is called with: it never reads origin
EvaluateContexts ==
  {[intent |-> intent, payload |-> payload, origin |-> AbsentText] :
     intent \in CallContextIntents, payload \in CallPayloads}

\* the contexts the engine is called with
CallContexts ==
  {[intent |-> intent, payload |-> payload, origin |-> origin] :
     intent \in {AbsentText, Some(TextDeployApi), Some(TextPaintWalls)},
     payload \in {Undefined, Null, Str(<<"a", "b">>), Obj([a |-> 1]),
                  Obj([a |-> 1, b |-> 2]), Obj([a |-> 1, b |-> 2, c |-> 3]),
                  Obj([z |-> 4])},
     origin \in CallOrigins}
CallOptContexts == {NoContext} \cup {[some |-> TRUE, v |-> c] : c \in CallContexts}

CallTransforms ==
  {[pick |-> pick, omit |-> omit, rename |-> rename, inject |-> inject] :
     pick \in {Absent, Some(<<"a", "b">>), Some(<<"c", "q">>)},
     omit \in {Absent, Some(<<"a">>), Some(<<"b", "q">>)},
     rename \in {Absent, Some(<< <<"a", "x">> >>), Some(<< <<"a", "b">> >>),
                 Some(<< <<"a", "x">>, <<"x", "c">> >>), Some(<< <<"c", "c">> >>)},
     inject \in {Absent, Some([y |-> 9]), Some([x |-> 7, b |-> 8])}}

AllHexes == {HexAlpha, HexBeta, HexGamma, HexDelta}
QueryStores == {StoreOf(hexes) : hexes \in SUBSET AllHexes}
CallIntents == {TextDeployApi, TextUiButton, TextShipForm, TextGo, ""}
CallLimits == {AbsentNum} \cup {Some(n) : n \in {-1, 0, 1, 2}}

AllHexIds == {"alpha", "beta", "ghost"}
AllEdgeIds == {"ship", "crm", "open", "nope"}

\* contents.data a stored hex may hold, and data a caller may deposit
StoredData ==
  {Undefined, Null, Num(0), Str(<<"s", "t", "r">>), Arr(<<>>), Arr(<<1, 2>>),
   Obj(EmptyMap), Obj([x |-> 1]), Obj([x |-> 1, y |-> 5])}
IncomingData ==
  {Undefined, Null, Num(4), Str(<<"s">>), Arr(<<>>), Arr(<<3>>), Arr(<<3, 4>>),
   Obj(EmptyMap), Obj([y |-> 2]), Obj([z |-> 1])}
StoreHolding(data) ==
  StoreOf({[HexAlpha EXCEPT !.contents.data = data], HexBeta})

EngineAtRest ==
  /\ journeys = EmptyMap
  /\ journeyLog = <<>>
  /\ clock = 0

\* what earlier calls may have left: nothing, or one step of one journey,
\* appended to the log or not
PriorStep(n) ==
  [hexId |-> "alpha", action |-> "enter", timestamp |-> 0, edgeId |-> NoEdgeId,
   payload |-> Num(n)]
RecordingAfter(context, step, appendOk) ==
  [journeys |-> RecordInMemory(EmptyMap, context, step, 0),
   log |-> AppendToLog(<<>>, context, step, appendOk)]
PriorRecordings ==
  {[journeys |-> EmptyMap, log |-> <<>>],
   RecordingAfter(CtxScout, PriorStep(1), TRUE),
   RecordingAfter(CtxScout, PriorStep(1), FALSE),
   RecordingAfter(CtxBare, PriorStep(1), TRUE)}
Recorded == \E r \in PriorRecordings : journeys = r.journeys /\ journeyLog = r.log

\* the journey logs an earlier process may have left, up to MaxPriorLog lines
MaxPriorLog == 3
PriorLogs ==
  {[i \in 1..n |-> LogEntry(CtxScout, PriorStep(i))] : n \in 0..MaxPriorLog}
CallLogLimits == {AbsentNum} \cup {Some(n) : n \in {-1, 0, 1, 2, 3, 5}}

\* the stores traverse is called on: alpha with two edges of one id, and
\* alpha with an id per edge
HexAlphaUnique == [HexAlpha EXCEPT !.edges = <<EdgeShip, EdgeCrm, EdgeOpen>>]
TraverseStores == {InitialStore, StoreOf({HexAlphaUnique, HexBeta})}

\* every key and synonym of the table, and a word the table does not hold
ConceptTokens ==
  UNION {{CONCEPT_MAP[i].key} \cup Range(CONCEPT_MAP[i].synonyms) :
           i \in 1..Len(CONCEPT_MAP)}
    \cup {<<"p", "a", "i", "n", "t">>}

InitCall ==
  \/ /\ EngineAtRest
     /\ store \in QueryStores
     /\ \E intent \in CallIntents, limit \in CallLimits,
           order \in Orderings(DOMAIN store) :
          last = [op |-> "pending", fn |-> "query", intent |-> intent,
                  limit |-> limit, order |-> order]
  \/ /\ EngineAtRest
     /\ store = InitialStore
     /\ \E hexId \in AllHexIds, context \in CallContexts :
          last = [op |-> "pending", fn |-> "nextSteps", hexId |-> hexId,
                  context |-> context]
  \/ /\ Recorded
     /\ clock = 0
     /\ store = InitialStore
     /\ \E hexId \in AllHexIds, context \in CallOptContexts :
          last = [op |-> "pending", fn |-> "enter", hexId |-> hexId,
                  context |-> context]
  \/ /\ Recorded
     /\ clock = 0
     /\ store \in TraverseStores
     /\ \E hexId \in AllHexIds, edgeId \in AllEdgeIds, context \in CallContexts :
          last = [op |-> "pending", fn |-> "traverse", hexId |-> hexId,
                  edgeId |-> edgeId, context |-> context]
  \/ /\ Recorded
     /\ clock \in 0..MaxClock
     /\ store \in {StoreHolding(data) : data \in StoredData}
     /\ \E hexId \in {"alpha", "ghost"}, data \in IncomingData,
           context \in OptContexts :
          last = [op |-> "pending", fn |-> "deposit", hexId |-> hexId,
                  data |-> data, context |-> context]
  \/ /\ EngineAtRest
     /\ store = InitialStore
     /\ \E condition \in CallConditions, context \in EvaluateContexts :
          last = [op |-> "pending", fn |-> "evaluateCondition",
                  condition |-> condition, context |-> context]
  \/ /\ EngineAtRest
     /\ store = InitialStore
     /\ \E payload \in CallPayloads, transform \in CallTransforms :
          last = [op |-> "pending", fn |-> "applyTransform",
                  payload |-> payload, transform |-> transform]
  \/ /\ Recorded
     /\ clock = 0
     /\ store \in {StoreOf({HexAlpha}), InitialStore}
     /\ \E hex \in AllHexes :
          last = [op |-> "pending", fn |-> "createHex", hex |-> hex]
  \/ /\ EngineAtRest
     /\ store = InitialStore
     /\ \E a \in ConceptTokens, b \in ConceptTokens :
          last = [op |-> "pending", fn |-> "expandWithSynonyms", a |-> a, b |-> b]
  \/ /\ journeys = EmptyMap
     /\ clock = 0
     /\ journeyLog \in PriorLogs
     /\ store = InitialStore
     /\ \E limit \in CallLogLimits :
          last = [op |-> "pending", fn |-> "getJourneyLog", limit |-> limit]

Pending(fn) == last.op = "pending" /\ last.fn = fn

EvaluateCondition(condition, context) ==
  /\ last' = [op |-> "evaluateCondition", condition |-> condition,
              context |-> context, result |-> evaluateCondition(condition, context)]
  /\ UNCHANGED <<store, journeys, journeyLog, clock>>

ApplyTransform(payload, transform) ==
  /\ last' = [op |-> "applyTransform", payload |-> payload, transform |-> transform,
              result |-> applyTransform(payload, transform),
              payloadAfter |-> CallerPayloadAfter(payload, transform),
              sameObject |-> ReturnsCallerObject(payload, transform)]
  /\ UNCHANGED <<store, journeys, journeyLog, clock>>

CallQuery == Pending("query") /\ Query(last.intent, last.limit, last.order)
CallNextSteps == Pending("nextSteps") /\ NextSteps(last.hexId, last.context)
CallEnter ==
  /\ Pending("enter")
  /\ \E appendOk \in BOOLEAN : Enter(last.hexId, last.context, appendOk)
CallTraverse ==
  /\ Pending("traverse")
  /\ \E appendOk \in BOOLEAN :
       Traverse(last.hexId, last.edgeId, last.context, appendOk)
CallDeposit ==
  /\ Pending("deposit")
  /\ \E saveOk \in BOOLEAN, appendOk \in BOOLEAN :
       Deposit(last.hexId, last.data, last.context, saveOk, appendOk)
CallEvaluate ==
  Pending("evaluateCondition") /\ EvaluateCondition(last.condition, last.context)
\* expandWithSynonyms of one word and of another, and the overlap query and
\* evaluateCondition compute from the two expansions
ExpandPair(a, b) ==
  /\ last' = [op |-> "expandWithSynonyms", a |-> a, b |-> b,
              ofA |-> expandWithSynonyms(<<a>>), ofB |-> expandWithSynonyms(<<b>>),
              overlap |-> wordOverlap(expandWithSynonyms(<<a>>), expandWithSynonyms(<<b>>))]
  /\ UNCHANGED <<store, journeys, journeyLog, clock>>
CallExpand == Pending("expandWithSynonyms") /\ ExpandPair(last.a, last.b)
CallTransform ==
  Pending("applyTransform") /\ ApplyTransform(last.payload, last.transform)
CallCreateHex ==
  Pending("createHex") /\ \E saveOk \in BOOLEAN : CreateHex(last.hex, saveOk)
CallGetJourneyLog == Pending("getJourneyLog") /\ GetJourneyLog(last.limit)

NextCall ==
  \/ CallQuery
  \/ CallNextSteps
  \/ CallEnter
  \/ CallTraverse
  \/ CallDeposit
  \/ CallEvaluate
  \/ CallTransform
  \/ CallGetJourneyLog
  \/ CallCreateHex
  \/ CallExpand

SpecCall == InitCall /\ [][NextCall]_vars

(***************************************************************************)
(* CONCURRENT DEPOSITS                                                     *)
(* Two deposit calls in flight at once. A call is suspended at its awaits: *)
(* before getHex's read, between the merge and saveHex's write, between    *)
(* the write and logStep, and inside logStep at appendFile. last holds     *)
(* both calls' positions and locals, and the order in which their reads    *)
(* and writes happened.                                                    *)
(* writeFile is taken as one step: two writes of one file do not mix.      *)
(***************************************************************************)

Callers == {"first", "second"}
RaceData == {Obj([y |-> 2]), Obj([z |-> 3])}

CallOf(hexId, data, context) ==
  [pc |-> "called", hexId |-> hexId, data |-> data, context |-> context,
   read |-> NullHex, merged |-> NullHex, step |-> <<>>, outcome |-> "running",
   result |-> FALSE]
RaceCalls ==
  {CallOf(hexId, data, context) :
     hexId \in CallHexIds, data \in RaceData, context \in OptContexts}

InitRace ==
  /\ store = InitialStore
  /\ journeys = EmptyMap
  /\ journeyLog = <<>>
  /\ clock = 0
  /\ \E calls \in [Callers -> RaceCalls] :
       last = [op |-> "deposits", calls |-> calls, events |-> <<>>]

InFlight(p, pc) == last.op = "deposits" /\ last.calls[p].pc = pc
Moved(p, call, event) ==
  last' = [last EXCEPT !.calls[p] = call, !.events = Append(@, <<event, p>>)]

\* getHex resumes: null returns false; otherwise the record read is merged
\* with the data and stamped, up to the await of saveHex
DepositRead(p) ==
  LET c == last.calls[p]
      got == getHex(store, c.hexId)
  IN /\ InFlight(p, "called")
     /\ Moved(p,
              IF got.found
                THEN [c EXCEPT !.pc = "merged", !.read = got,
                               !.merged = [found |-> TRUE,
                                           hex |-> DepositedHex(got.hex, c.data, clock)]]
                ELSE [c EXCEPT !.pc = "done", !.outcome = "returned"],
              "read")
     /\ UNCHANGED <<store, journeys, journeyLog, clock>>

\* a variant that reads the file again and merges as it writes
DepositWriteMergingAfresh(p, saveOk) ==
  LET c == last.calls[p]
  IN /\ InFlight(p, "merged")
     /\ store' = IF saveOk
                   THEN saveHex(store, DepositedHex(store[c.hexId], c.data, clock))
                   ELSE store
     /\ Moved(p,
              IF ~saveOk THEN [c EXCEPT !.pc = "done", !.outcome = "threw"]
              ELSE IF c.context.some THEN [c EXCEPT !.pc = "saved"]
              ELSE [c EXCEPT !.pc = "done", !.outcome = "returned", !.result = TRUE],
              IF saveOk THEN "write" ELSE "failed")
     /\ UNCHANGED <<journeys, journeyLog, clock>>

\* saveHex writes the record merged after the read; a rejected write leaves
\* deposit by exception; without a context deposit returns true
DepositWrite(p, saveOk) ==
  LET c == last.calls[p]
  IN /\ InFlight(p, "merged")
     /\ store' = IF saveOk THEN saveHex(store, c.merged.hex) ELSE store
     /\ Moved(p,
              IF ~saveOk THEN [c EXCEPT !.pc = "done", !.outcome = "threw"]
              ELSE IF c.context.some THEN [c EXCEPT !.pc = "saved"]
              ELSE [c EXCEPT !.pc = "done", !.outcome = "returned", !.result = TRUE],
              IF saveOk THEN "write" ELSE "failed")
     /\ UNCHANGED <<journeys, journeyLog, clock>>

\* logStep up to its await: the step joins the in-memory Journey and the
\* append of its line is issued
DepositLog(p) ==
  LET c == last.calls[p]
      step == [hexId |-> c.hexId, action |-> "deposit", timestamp |-> clock,
               edgeId |-> NoEdgeId, payload |-> c.data]
  IN /\ InFlight(p, "saved")
     /\ journeys' = RecordInMemory(journeys, c.context.v, step, clock)
     /\ Moved(p, [c EXCEPT !.pc = "appending", !.step = step], "log")
     /\ UNCHANGED <<store, journeyLog, clock>>

\* appendFile settles, in whatever order the appends in flight are served,
\* and deposit returns true
DepositAppended(p, appendOk) ==
  LET c == last.calls[p]
  IN /\ InFlight(p, "appending")
     /\ journeyLog' = AppendToLog(journeyLog, c.context.v, c.step, appendOk)
     /\ Moved(p, [c EXCEPT !.pc = "done", !.outcome = "returned", !.result = TRUE],
              "append")
     /\ UNCHANGED <<store, journeys, clock>>

NextRace ==
  \/ Tick
  \/ \E p \in Callers : DepositRead(p)
  \/ \E p \in Callers, saveOk \in BOOLEAN : DepositWrite(p, saveOk)
  \/ \E p \in Callers : DepositLog(p)
  \/ \E p \in Callers, appendOk \in BOOLEAN : DepositAppended(p, appendOk)

SpecRace == InitRace /\ [][NextRace]_vars

(***************************************************************************)
(* PROPERTIES                                                              *)
(***************************************************************************)

QueryDone == last.op = "query"
TraverseDone == last.op = "traverse"
DepositDone == last.op = "deposit"
EvaluateDone == last.op = "evaluateCondition"
TransformDone == last.op = "applyTransform"

\* the limit a query call ran with
LimitOf(limit) == IF limit.some THEN limit.v ELSE DefaultQueryLimit

\* the first n entries of s: none for n <= 0, all of s for n >= Len(s)
FirstEntries(s, n) ==
  SubSeq(s, 1, IF n < 0 THEN 0 ELSE IF n > Len(s) THEN Len(s) ELSE n)

\* C1: whatever the intent and the stored hexes, every hex query returns has a
\* score above 0 (the score it is reported with is the score of the hex for
\* the intent), and the scores never increase along the returned list.
C1_QueryPositiveAndSorted ==
  QueryDone =>
    /\ \A i \in 1..Len(last.result) :
         /\ last.result[i].score = ScoreOf(last.result[i].hex, expandedTokens(last.intent))
         /\ last.result[i].score > 0
    /\ \A i \in 1..(Len(last.result) - 1) :
         last.result[i].score >= last.result[i + 1].score

\* a query over hexes read in an order that is not the ranked one, with a hex
\* that scores nothing left out and unequal scores among those returned
C1_Witness ==
  /\ QueryDone
  /\ Len(last.result) >= 2
  /\ last.result[1].score > last.result[Len(last.result)].score
  /\ \E i \in 1..Len(last.hexes) :
       ScoreOf(last.hexes[i], expandedTokens(last.intent)) = 0
  /\ ScoredResults(last.hexes, last.intent) # last.result

\* C2: query returns at most `limit` results (5 when no limit is given; none
\* for a limit below 1), and they are the first `limit` entries of the ranked
\* list of the hexes that scored.
C2_QueryTruncatedToLimit ==
  QueryDone =>
    /\ Len(last.result) <= (IF LimitOf(last.limit) < 0 THEN 0 ELSE LimitOf(last.limit))
    /\ last.result = FirstEntries(RankResults(ScoredResults(last.hexes, last.intent)),
                                  LimitOf(last.limit))

\* C3: when nextSteps has just returned an edge and traverse is called on that
\* edge with a context whose payload does not satisfy the edge's guard,
\* traverse fails with "Edge condition not met".
C3_TraverseRechecksGuard ==
  (/\ TraverseDone
   /\ last.edgeId \in last.offered
   /\ ~evaluateCondition(FindEdge(store[last.hexId], last.edgeId).when, last.context))
    => /\ last.result.success = FALSE
       /\ last.result.error = "Edge condition not met"

\* traverse failed on its guard for an edge the call before had offered
C3_Witness ==
  /\ TraverseDone
  /\ last.edgeId \in last.offered
  /\ last.result.success = FALSE
  /\ last.result.error = "Edge condition not met"

\* C4: traverse reports a failure in its result, checking source, then edge,
\* then guard: no source hex gives destination "" and "Source hex not found";
\* else no such edge gives destination "" and "Edge not found"; else a failing
\* guard gives the edge's `to` and "Edge condition not met"; and it fails in
\* no other case.
C4_TraverseFailures ==
  TraverseDone =>
    LET r == last.result
        got == getHex(store, last.hexId)
    IN IF ~got.found
         THEN r.success = FALSE /\ r.destination = "" /\ r.error = "Source hex not found"
       ELSE IF \A i \in 1..Len(got.hex.edges) : got.hex.edges[i].id # last.edgeId
         THEN r.success = FALSE /\ r.destination = "" /\ r.error = "Edge not found"
       ELSE IF ~evaluateCondition(FindEdge(got.hex, last.edgeId).when, last.context)
         THEN /\ r.success = FALSE
              /\ r.destination = FindEdge(got.hex, last.edgeId).to
              /\ r.error = "Edge condition not met"
       ELSE r.success = TRUE

\* the guard of an existing edge of an existing hex failed, and the result
\* names the edge's destination
C4_Witness ==
  /\ TraverseDone
  /\ last.hexId \in DOMAIN store
  /\ last.result.success = FALSE
  /\ last.result.error = "Edge condition not met"
  /\ last.result.destination = "beta"

\* C5: a successful traverse returns the edge's `to` as destination, the
\* transform applied to context.payload as payload when the edge has a
\* transform and context.payload itself otherwise, and external = true exactly
\* when `to` begins with "external:".
C5_TraverseSuccess ==
  (TraverseDone /\ last.result.success) =>
    LET r == last.result
        edge == FindEdge(store[last.hexId], last.edgeId)
    IN /\ r.destination = edge.to
       /\ r.payload = IF edge.transform.some
                        THEN applyTransform(last.context.payload, edge.transform.v)
                        ELSE last.context.payload
       /\ r.external \in {"true", "false"}
       /\ r.external = "true" <=> startsWith(edge.to, "external:")

\* a traverse over an edge to an external target whose transform changed the
\* payload
C5_Witness ==
  /\ TraverseDone
  /\ last.result.success
  /\ last.result.external = "true"
  /\ FindEdge(store[last.hexId], last.edgeId).transform.some
  /\ last.result.payload # last.context.payload
  /\ last.result.payload.t = "object"

\* the keys of a key list
KeysOf(list) == IF list.some THEN Range(list.v) ELSE {}

\* pick, then omit, then rename entry by entry, then inject, over a map
RECURSIVE RenamedInOrder(_, _)
RenamedInOrder(m, entries) ==
  IF entries = <<>> THEN m
  ELSE LET from == Head(entries)[1]
           to == Head(entries)[2]
       IN RenamedInOrder(
            IF from \in DOMAIN m
              THEN [k \in (DOMAIN m \cup {to}) \ {from} |-> IF k = to THEN m[from] ELSE m[k]]
              ELSE m,
            Tail(entries))
TransformedInOrder(m, t) ==
  LET picked == IF t.pick.some THEN [k \in DOMAIN m \cap KeysOf(t.pick) |-> m[k]] ELSE m
      kept == [k \in DOMAIN picked \ KeysOf(t.omit) |-> picked[k]]
      renamed == IF t.rename.some THEN RenamedInOrder(kept, t.rename.v) ELSE kept
  IN IF t.inject.some
       THEN [k \in DOMAIN renamed \cup DOMAIN t.inject.v |->
               IF k \in DOMAIN t.inject.v THEN t.inject.v[k] ELSE renamed[k]]
       ELSE renamed

MergePolicy(existing, incoming) ==
  IF existing.t = "array" /\ incoming.t = "array"
    THEN Arr(existing.arr \o incoming.arr)
  ELSE IF existing.t = "object" /\ incoming.t = "object"
    THEN Obj([k \in DOMAIN existing.obj \cup DOMAIN incoming.obj |->
                IF k \in DOMAIN incoming.obj THEN incoming.obj[k] ELSE existing.obj[k]])
  ELSE incoming

\* C7: after a deposit on an existing hex, contents.data is the existing data
\* followed by the incoming data when both are sequences, the shallow merge
\* (incoming wins) when both are non-null key/value structures, and the
\* incoming data in every other case.
C7_DepositMergePolicy ==
  (DepositDone /\ last.result) =>
    store[last.hexId].contents.data
      = MergePolicy(last.before.hex.contents.data, last.data)

\* C8: a condition with always = true evaluates to true for every context,
\* whatever its other clauses are.
C8_AlwaysWins ==
  (EvaluateDone /\ last.condition.always) => last.result = TRUE

\* always = true beside an intent clause the context's intent does not match
\* and a hasData clause its payload does not satisfy
C8_Witness ==
  /\ EvaluateDone
  /\ last.condition.always
  /\ last.condition.intent = Some(TextShipIt)
  /\ last.context.intent = Some(TextPaintWalls)
  /\ last.condition.hasData = Some(<<"a", "b">>)
  /\ last.context.payload = Obj([a |-> 1])
  /\ last.result = TRUE

OnlyHasData(condition) ==
  /\ ~condition.always
  /\ ~condition.intent.some
  /\ condition.hasData.some
  /\ ~condition.lacks.some
  /\ ~condition.match.some

\* C9: a condition with the hasData clause alone, evaluated on a context whose
\* payload is an object, is true exactly when the payload has every listed
\* key: [a,b] is false on {a:1} and true on {a:1,b:2}.
C9_HasDataNeedsEveryKey ==
  (EvaluateDone /\ OnlyHasData(last.condition) /\ last.context.payload.t = "object") =>
    /\ last.result = (Range(last.condition.hasData.v) \subseteq DOMAIN last.context.payload.obj)
    /\ (last.condition.hasData.v = <<"a", "b">> /\ last.context.payload.obj = [a |-> 1])
         => last.result = FALSE
    /\ (last.condition.hasData.v = <<"a", "b">>
          /\ last.context.payload.obj = [a |-> 1, b |-> 2])
         => last.result = TRUE

\* hasData [a,b] alone, evaluated to false on the payload {a:1}
C9_Witness ==
  /\ EvaluateDone
  /\ OnlyHasData(last.condition)
  /\ last.condition.hasData.v = <<"a", "b">>
  /\ last.context.payload = Obj([a |-> 1])
  /\ last.result = FALSE

\* the condition without its intent clause
WithoutIntent(condition) == [condition EXCEPT !.intent = AbsentText]

\* C10: with an intent clause on the condition and no intent, or an empty one,
\* on the context, the condition evaluates to what it evaluates to without the
\* intent clause; with an intent on both sides (and always not set) it is true
\* exactly when the expanded token sets share a token and the condition
\* without its intent clause is true.
C10_IntentClause ==
  (EvaluateDone /\ last.condition.intent.some /\ last.condition.intent.v # "") =>
    IF ~last.context.intent.some \/ last.context.intent.v = ""
      THEN last.result = evaluateCondition(WithoutIntent(last.condition), last.context)
      ELSE ~last.condition.always =>
             last.result =
               (/\ expandedTokens(last.condition.intent.v)
                     \cap expandedTokens(last.context.intent.v) # {}
                /\ evaluateCondition(WithoutIntent(last.condition), last.context))

\* an intent clause skipped on a context with an empty intent, the other
\* clause deciding for true
C10_Witness ==
  /\ EvaluateDone
  /\ ~last.condition.always
  /\ last.condition.intent = Some(TextShipIt)
  /\ last.context.intent = Some("")
  /\ last.condition.hasData = Some(<<"a">>)
  /\ last.context.payload = Obj([a |-> 1])
  /\ last.result = TRUE

LoggingCallDone == last.op \in {"enter", "traverse", "deposit"}

\* C11: when the append to the journey log fails, enter, traverse and deposit
\* still return, and return what they return when it succeeds: enter the
\* stored hex, traverse its successful result, deposit true with the merged
\* hex saved.
C11_AppendFailureSwallowed ==
  (LoggingCallDone /\ ~last.appendOk) =>
    /\ last.outcome = "returned"
    /\ last.op = "enter" =>
         last.result = [found |-> TRUE, hex |-> store[last.hexId]]
    /\ last.op = "traverse" =>
         /\ last.result.success
         /\ last.result = TraverseSuccess(FindEdge(store[last.hexId], last.edgeId),
                                          last.context)
    /\ last.op = "deposit" =>
         /\ last.result = TRUE
         /\ store[last.hexId] = DepositedHex(last.before.hex, last.data, clock)

\* a deposit whose step is held in memory while the append failed
C11_Witness ==
  /\ last.op = "deposit"
  /\ ~last.appendOk
  /\ last.result = TRUE
  /\ journeyLog = <<>>
  /\ journeys # EmptyMap
  /\ store[last.hexId].contents.data # last.before.hex.contents.data

\* C12: nextSteps returns the edges of the hex whose guard is true for the
\* context, each once, a higher priority before a lower one and equal
\* priorities in stored order; and the empty list for an id that names no hex.
C12_NextStepsPassingByPriority ==
  (last.op = "nextSteps") =>
    IF last.hexId \notin DOMAIN store THEN last.result = <<>>
    ELSE LET edges == store[last.hexId].edges
             passing == {i \in 1..Len(edges) :
                           evaluateCondition(edges[i].when, last.context)}
         IN /\ Len(last.result) = Cardinality(passing)
            /\ \E idx \in [1..Len(last.result) -> passing] :
                 /\ \A k \in 1..Len(last.result) : last.result[k] = edges[idx[k]]
                 /\ \A k, l \in 1..Len(last.result) :
                      k < l =>
                        \/ edges[idx[k]].priority > edges[idx[l]].priority
                        \/ /\ edges[idx[k]].priority = edges[idx[l]].priority
                           /\ idx[k] < idx[l]

\* three edges returned, the stored second one first, two of them of equal
\* priority, and one edge of the hex left out
C12_Witness ==
  /\ last.op = "nextSteps"
  /\ Len(last.result) = 3
  /\ last.result[1].id = "crm"
  /\ last.result[2].priority = last.result[3].priority
  /\ Len(store[last.hexId].edges) = 4

LogReadDone == last.op = "getJourneyLog"

\* the last n entries of the log, all of them when it holds fewer
MostRecent(log, n) ==
  SubSeq(log, (IF n > Len(log) THEN 0 ELSE Len(log) - n) + 1, Len(log))

\* C13: a journey-log read with limit L >= 0 (100 when absent) returns the L
\* most recent entries in log order, all of them when there are fewer, none
\* when L = 0 or the log is empty
C13_LogReadMostRecent ==
  LogReadDone =>
    LET L == IF last.limit.some THEN last.limit.v ELSE DefaultLogLimit
    IN L >= 0 => last.result = MostRecent(journeyLog, L)

\* the part of C13 that the code keeps: every L >= 1
C13_LogReadPositiveLimit ==
  LogReadDone =>
    LET L == IF last.limit.some THEN last.limit.v ELSE DefaultLogLimit
    IN L >= 1 => last.result = MostRecent(journeyLog, L)

\* the calls that record a step: enter of a stored hex with a context, a
\* successful traverse, a saved deposit with a context
Records(call) ==
  \/ call.op = "enter" /\ call.result.found /\ call.context.some
  \/ call.op = "traverse" /\ call.result.success
  \/ call.op = "deposit" /\ call.before.found /\ call.saveOk /\ call.context.some
RecordingContext(call) == IF call.op = "traverse" THEN call.context ELSE call.context.v
RecordedAction(call) == IF call.op = "traverse" THEN "exit" ELSE call.op
ExpectedJourneyId(call) ==
  LET origin == RecordingContext(call).origin
  IN IF origin.some /\ origin.v # "" THEN origin.v ELSE "anonymous"

\* the Journey of the call's id holds one step more, the call's, after what it
\* held; it is the Journey that was there, if one was; no other Journey changes
JourneyGrewByOne(call, before, after) ==
  LET id == ExpectedJourneyId(call)
      held == IF id \in DOMAIN before THEN before[id].steps ELSE <<>>
  IN /\ id \in DOMAIN after
     /\ DOMAIN after = DOMAIN before \cup {id}
     /\ \A k \in DOMAIN before \ {id} : after[k] = before[k]
     /\ after[id].id = id
     /\ Len(after[id].steps) = Len(held) + 1
     /\ SubSeq(after[id].steps, 1, Len(held)) = held
     /\ after[id].steps[Len(held) + 1].hexId = call.hexId
     /\ after[id].steps[Len(held) + 1].action = RecordedAction(call)
     /\ id \in DOMAIN before =>
          after[id] = [before[id] EXCEPT !.steps = after[id].steps]

\* the log holds one line more: the step the Journey just received, with the
\* journey id
LogGrewByStep(call, logBefore, logAfter, after) ==
  LET id == ExpectedJourneyId(call)
      step == after[id].steps[Len(after[id].steps)]
  IN /\ Len(logAfter) = Len(logBefore) + 1
     /\ SubSeq(logAfter, 1, Len(logBefore)) = logBefore
     /\ logAfter[Len(logAfter)] =
          [hexId |-> step.hexId, action |-> step.action, timestamp |-> step.timestamp,
           edgeId |-> step.edgeId, payload |-> step.payload, journeyId |-> id]

\* C14 as stated: every recorded step is appended to the durable log with its
\* journey id and to the in-memory Journey keyed by context.origin, or by
\* "anonymous" when origin is absent or empty; the Journey is created on the
\* first step and never replaced, so its steps grow by exactly one
C14_StepInLogAndJourney ==
  [][Records(last') =>
       /\ JourneyGrewByOne(last', journeys, journeys')
       /\ LogGrewByStep(last', journeyLog, journeyLog', journeys')]_vars

\* C14, amended: the step always reaches the in-memory Journey as stated, and
\* reaches the durable log when the append succeeds; when the append fails the
\* log is left as it was
C14_StepInJourneyAndLogWhenAppended ==
  [][Records(last') =>
       /\ JourneyGrewByOne(last', journeys, journeys')
       /\ IF last'.appendOk
            THEN LogGrewByStep(last', journeyLog, journeyLog', journeys')
            ELSE journeyLog' = journeyLog]_vars

\* a second step of the anonymous journey, recorded for a context without origin
C14_Witness ==
  /\ last.op = "enter" /\ Records(last) /\ last.appendOk
  /\ ~last.context.v.origin.some
  /\ Len(journeys["anonymous"].steps) = 2
  /\ Len(journeyLog) = 2 /\ journeyLog[2].journeyId = "anonymous"

IsPrefix(s, t) == Len(s) <= Len(t) /\ SubSeq(t, 1, Len(s)) = s

CompletedCall(call) ==
  \/ call.op \in {"query", "nextSteps"}
  \/ call.op \in {"enter", "traverse", "deposit"} /\ call.outcome = "returned"

\* C16: every externally visible engine call (query, enter, nextSteps,
\* traverse, deposit) ends by notifying the Journey Recorder: each completed
\* call has recorded a journey step
C16_EveryCallRecordsStep ==
  [][CompletedCall(last') => StepsHeld(journeys') = StepsHeld(journeys) + 1]_vars

\* the calls that do record: the step count grows exactly for them
C16_RecordingCalls ==
  [][CompletedCall(last') =>
       StepsHeld(journeys') = StepsHeld(journeys) + (IF Records(last') THEN 1 ELSE 0)]_vars

\* C17: query has no side effects: the store, the durable log and the journeys
\* are after it exactly as before it; the same holds for nextSteps
C17_QueryAndNextStepsReadOnly ==
  [][last'.op \in {"query", "nextSteps"} =>
       /\ store' = store
       /\ journeyLog' = journeyLog
       /\ journeys' = journeys]_vars

\* a query has answered over a store a deposit changed, with a step on record
C17_Witness ==
  /\ last.op = "query" /\ Len(last.result) > 0
  /\ store # InitialStore
  /\ journeyLog # <<>> /\ journeys # EmptyMap

\* a deposit on a stored hex, or a createHex, whose write was rejected
SaveFailed(call) ==
  \/ call.op = "deposit" /\ call.before.found /\ ~call.saveOk
  \/ call.op = "createHex" /\ ~call.saveOk

\* C19: a store write failure during deposit or node creation reaches the
\* caller: the call leaves by exception, deposit does not return true, and no
\* journey step is recorded; the store is as it was
C19_SaveFailurePropagates ==
  [][SaveFailed(last') =>
       /\ last'.outcome = "threw"
       /\ last'.op = "deposit" => last'.result = FALSE
       /\ journeys' = journeys
       /\ journeyLog' = journeyLog
       /\ store' = store]_vars

\* a deposit with a context on a stored hex met a rejected write
C19_Witness ==
  /\ last.op = "deposit" /\ SaveFailed(last) /\ last.context.some
  /\ last.outcome = "threw"
  /\ journeys # EmptyMap

\* the hints of a hex whose expanded tokens share a token with the intent's
OverlappingHints(hex, intent) ==
  Filter(hex.entryHints,
         [i \in 1..Len(hex.entryHints) |->
            expandedTokens(intent) \cap expandedTokens(hex.entryHints[i]) # {}])

\* what name, description and tags add to a score
OtherScore(hex, intent) ==
  NameScore(hex, expandedTokens(intent)) + DescScore(hex, expandedTokens(intent))
    + TagsScore(hex, expandedTokens(intent))

\* C20: each entry hint whose expanded tokens overlap the expanded intent adds
\* exactly 1 point to the score, however many tokens overlap, and matchedHints
\* is the list of such hints in entryHints order
C20_OnePointPerMatchedHint ==
  QueryDone =>
    \A i \in 1..Len(last.result) :
      LET r == last.result[i]
      IN /\ r.matchedHints = OverlappingHints(r.hex, last.intent)
         /\ r.score = Len(OverlappingHints(r.hex, last.intent)) * HintPointTenths
                        + OtherScore(r.hex, last.intent)

\* the part of C20 that the code keeps: matchedHints
C20_MatchedHintsInOrder ==
  QueryDone =>
    \A i \in 1..Len(last.result) :
      last.result[i].matchedHints = OverlappingHints(last.result[i].hex, last.intent)

\* the positions of an event in the order of the concurrent deposits
EventsOf(kind) == {i \in 1..Len(last.events) : last.events[i][1] = kind}
Wrote(p) == \E i \in EventsOf("write") : last.events[i][2] = p
LastWriter ==
  CHOOSE p \in Callers :
    \E i \in EventsOf("write") :
      last.events[i][2] = p /\ \A j \in EventsOf("write") : j <= i
OtherCaller(p) == CHOOSE q \in Callers : q # p

\* both deposits are on the same hex, both have completed after a write, and
\* both read before either wrote
RacedToCompletion ==
  /\ last.op = "deposits"
  /\ \A p \in Callers : last.calls[p].pc = "done" /\ Wrote(p)
  /\ \A p, q \in Callers : last.calls[p].hexId = last.calls[q].hexId
  /\ \A i \in EventsOf("read"), j \in EventsOf("write") : i < j

\* C18: two deposits on the same node are not isolated: when both read the
\* node before either writes, both return true and the node's contents after
\* both complete are the merge computed by the deposit that wrote last over
\* the value it read, which is the value stored before both (last write wins)
C18_LastWriteWins ==
  RacedToCompletion =>
    LET w == last.calls[LastWriter]
    IN /\ \A p \in Callers : last.calls[p].result = TRUE
       /\ w.read.hex = InitialStore[w.hexId]
       /\ store[w.hexId].contents.data
            = mergeData(w.read.hex.contents.data, w.data)

\* both deposits returned true and the data of the one that wrote first is
\* not in the stored contents
C18_Witness ==
  /\ RacedToCompletion
  /\ \A p \in Callers : last.calls[p].result = TRUE
  /\ LET w == last.calls[LastWriter]
         o == last.calls[OtherCaller(LastWriter)]
     IN /\ o.data # w.data
        /\ DOMAIN store[w.hexId].contents.data.obj
             = DOMAIN w.read.hex.contents.data.obj \cup DOMAIN w.data.obj
        /\ DOMAIN o.data.obj \cap DOMAIN store[w.hexId].contents.data.obj = {}

\* the step a recording call added to its Journey
NewestStep(call, js) ==
  js[ExpectedJourneyId(call)].steps[Len(js[ExpectedJourneyId(call)].steps)]

\* C21: a successful traverse records exactly one journey step, with action
\* "exit", the source hex id, the edge id and the payload the result returns;
\* the step is on record when the result is returned, and the store is left
\* unchanged
C21_TraverseRecordsExit ==
  [][(last'.op = "traverse" /\ last'.result.success) =>
       /\ last'.outcome = "returned"
       /\ JourneyGrewByOne(last', journeys, journeys')
       /\ StepsHeld(journeys') = StepsHeld(journeys) + 1
       /\ NewestStep(last', journeys').action = "exit"
       /\ NewestStep(last', journeys').hexId = last'.hexId
       /\ NewestStep(last', journeys').edgeId = last'.edgeId
       /\ NewestStep(last', journeys').payload = last'.result.payload
       /\ IF last'.appendOk
            THEN LogGrewByStep(last', journeyLog, journeyLog', journeys')
            ELSE journeyLog' = journeyLog
       /\ store' = store]_vars

\* a traverse succeeded over an edge whose transform changed the payload
C21_Witness ==
  /\ TraverseDone /\ last.result.success
  /\ last.result.payload # last.context.payload
  /\ NewestStep(last, journeys).payload = last.result.payload
  /\ NewestStep(last, journeys).action = "exit"

\* a deposit found its hex and saved it
DepositSaved(call) == call.op = "deposit" /\ call.before.found /\ call.saveOk

\* C22: a deposit on an existing node persists the node with only
\* contents.data and `updated` changed, leaves every other node alone,
\* returns true, and records exactly one "deposit" step carrying the incoming
\* data when a context is supplied and no step when it is not
C22_DepositFrame ==
  [][DepositSaved(last') =>
       LET id == last'.hexId
       IN /\ last'.outcome = "returned" /\ last'.result = TRUE
          /\ DOMAIN store' = DOMAIN store
          /\ \A k \in DOMAIN store \ {id} : store'[k] = store[k]
          /\ store'[id] = [store[id] EXCEPT !.contents.data = store'[id].contents.data,
                                            !.updated = store'[id].updated]
          /\ store'[id].updated = clock
          /\ IF last'.context.some
               THEN /\ JourneyGrewByOne(last', journeys, journeys')
                    /\ StepsHeld(journeys') = StepsHeld(journeys) + 1
                    /\ NewestStep(last', journeys').action = "deposit"
                    /\ NewestStep(last', journeys').payload = last'.data
                    /\ IF last'.appendOk
                         THEN LogGrewByStep(last', journeyLog, journeyLog', journeys')
                         ELSE journeyLog' = journeyLog
               ELSE journeys' = journeys /\ journeyLog' = journeyLog]_vars

\* a deposit with a context changed the data of alpha, after the clock moved
C22_Witness ==
  /\ DepositSaved(last) /\ last.context.some /\ last.result = TRUE
  /\ store[last.hexId].contents.data # last.before.hex.contents.data
  /\ store[last.hexId].created = last.before.hex.created
  /\ store[last.hexId].updated > store[last.hexId].created
  /\ NewestStep(last, journeys).payload = last.data

\* the intent clause holds: it is absent or empty on either side, or the
\* expanded token sets share a token
IntentClauseHolds(condition, context) ==
  (/\ condition.intent.some /\ condition.intent.v # ""
   /\ context.intent.some /\ context.intent.v # "")
    => expandedTokens(condition.intent.v) \cap expandedTokens(context.intent.v) # {}

NoPayload(context) == context.payload \in {Undefined, Null}

\* C23: with no payload on the context the hasData, lacks and match clauses
\* are satisfied whatever they list, so a condition with hasData and lacks on
\* the same keys is true with no payload; with the payload {} the clauses are
\* evaluated: hasData fails on any listed key, lacks holds on any listed key,
\* match fails on any listed key
C23_NoPayloadVacuous ==
  (EvaluateDone /\ ~last.condition.always) =>
    /\ NoPayload(last.context) =>
         last.result = IntentClauseHolds(last.condition, last.context)
    /\ (/\ NoPayload(last.context)
        /\ last.condition.hasData.some /\ last.condition.lacks = last.condition.hasData
        /\ ~last.condition.intent.some)
         => last.result = TRUE
    /\ last.context.payload = Obj(EmptyMap) =>
         last.result =
           (/\ IntentClauseHolds(last.condition, last.context)
            /\ last.condition.hasData.some => last.condition.hasData.v = <<>>
            /\ last.condition.lacks.some => last.condition.lacks.v # <<>>
            /\ last.condition.match.some => DOMAIN last.condition.match.v = {})

\* hasData [a] and lacks [a] together, true on a context without payload
C23_Witness ==
  /\ EvaluateDone /\ ~last.condition.always
  /\ last.condition.hasData = Some(<<"a">>) /\ last.condition.lacks = Some(<<"a">>)
  /\ last.condition.match.some
  /\ last.context.payload = Undefined
  /\ last.result = TRUE

\* C24: for a condition without always = true and a context with an intent
\* and an object payload, evaluate is true exactly when every present clause
\* holds: intent when the expanded token sets share a token, hasData when
\* every listed key is in the payload, lacks when at least one listed key is
\* missing from it, match when the payload has the listed value at every
\* listed key
C24_ClausesAnded ==
  (/\ EvaluateDone /\ ~last.condition.always
   /\ last.context.intent.some /\ last.context.intent.v # ""
   /\ last.context.payload.t = "object") =>
    LET keys == DOMAIN last.context.payload.obj
        c == last.condition
    IN last.result =
         (/\ IntentClauseHolds(c, last.context)
          /\ c.hasData.some => Range(c.hasData.v) \subseteq keys
          /\ c.lacks.some => \E k \in Range(c.lacks.v) : k \notin keys
          /\ c.match.some =>
               \A k \in DOMAIN c.match.v :
                 k \in keys /\ last.context.payload.obj[k] = c.match.v[k])

\* all four clauses present and holding, lacks through one missing key of two
C24_Witness ==
  /\ EvaluateDone /\ ~last.condition.always
  /\ last.condition.intent.some /\ last.condition.intent.v # ""
  /\ last.context.intent.some /\ last.context.intent.v # ""
  /\ last.condition.hasData.some /\ last.condition.match.some
  /\ last.condition.lacks = Some(<<"c", "a">>)
  /\ last.context.payload = Obj([a |-> 1, b |-> 2])
  /\ last.result = TRUE

ObjectLike(d) == d.t \in {"array", "object"}

\* C25: the transform is pure: a payload that is absent, null or a primitive
\* is returned unchanged whatever the transform says; for an object payload
\* the value returned is a new object, the one the steps produced, and the
\* caller's payload has after the call the keys and values it had before
C25_TransformPure ==
  TransformDone =>
    /\ last.payloadAfter = last.payload
    /\ ~ObjectLike(last.payload) => last.result = last.payload
    /\ ObjectLike(last.payload) =>
         /\ ~last.sameObject
         /\ last.result = Obj(transformHeap(last.payload, last.transform).result)

\* omit and rename, without pick or inject, changed what an object payload
\* carries
C25_Witness ==
  /\ TransformDone
  /\ last.payload = Obj([a |-> 1, b |-> 2])
  /\ ~last.transform.pick.some /\ ~last.transform.inject.some
  /\ last.transform.omit.some /\ last.transform.rename.some
  /\ last.result # last.payload
  /\ last.payloadAfter = last.payload

ExpandDone == last.op = "expandWithSynonyms"
TokenButton == <<"b", "u", "t", "t", "o", "n">>
TokenInteractive == <<"i", "n", "t", "e", "r", "a", "c", "t", "i", "v", "e">>

\* C26: synonym expansion is symmetric: B is in the expansion of {A} exactly
\* when A is in the expansion of {B}; "interactive" and "button" are in each
\* other's expansion, so a hint holding the one matches an intent that is the
\* other, either way round
C26_ExpansionSymmetric ==
  ExpandDone =>
    /\ (last.b \in last.ofA) = (last.a \in last.ofB)
    /\ {last.a, last.b} = {TokenButton, TokenInteractive} =>
         /\ last.b \in last.ofA /\ last.a \in last.ofB
         /\ last.overlap > 0

\* the key "button" reached from its synonym "interactive"
C26_Witness ==
  /\ ExpandDone
  /\ last.a = TokenInteractive /\ last.b = TokenButton
  /\ last.b \in last.ofA /\ last.overlap > 0

\* the lines of the durable log that carry a journey id
LinesOf(id) ==
  Filter(journeyLog, [i \in 1..Len(journeyLog) |-> journeyLog[i].journeyId = id])

\* the steps of a Journey, as the lines logStep writes for them
StepsAsLines(id) ==
  [i \in 1..Len(journeys[id].steps) |->
     LET step == journeys[id].steps[i]
     IN [hexId |-> step.hexId, action |-> step.action, timestamp |-> step.timestamp,
         edgeId |-> step.edgeId, payload |-> step.payload, journeyId |-> id]]

RECURSIVE IsSubsequence(_, _)
IsSubsequence(s, t) ==
  IF s = <<>> THEN TRUE
  ELSE IF t = <<>> THEN FALSE
  ELSE IF Head(s) = Head(t) THEN IsSubsequence(Tail(s), Tail(t))
  ELSE IsSubsequence(s, Tail(t))

\* C27: the in-memory Journey is a view over the durable log: in every
\* reachable state each step of the Journey of an origin is in the log with
\* that journey id, and the steps of one origin are in the same relative
\* order in both, also when calls of one origin interleave at the append
C27_JourneyIsViewOfLog ==
  \A id \in DOMAIN journeys : IsSubsequence(StepsAsLines(id), LinesOf(id))

\* what the code keeps the other way round: every line written is a step of
\* the Journey of its id
C27_LinesAreJourneySteps ==
  \A i \in 1..Len(journeyLog) :
    /\ journeyLog[i].journeyId \in DOMAIN journeys
    /\ journeyLog[i] \in Range(StepsAsLines(journeyLog[i].journeyId))

\* both appends succeeded and the lines are in the log in the other order
C27_LinesOutOfOrder ==
  /\ last.op = "deposits"
  /\ \A p \in Callers : last.calls[p].pc = "done"
  /\ \E id \in DOMAIN journeys :
       /\ Len(LinesOf(id)) = 2 /\ Len(journeys[id].steps) = 2
       /\ StepsAsLines(id) # LinesOf(id)

\* no two edges of the hex share an id
UniqueEdgeIds(hex) ==
  \A i, j \in 1..Len(hex.edges) : hex.edges[i].id = hex.edges[j].id => i = j

\* the ids nextSteps returns for the call's hex and context, over the store
\* as it is
OfferedNow(call) ==
  LET edges == nextSteps(store, call.hexId, call.context)
  IN {edges[i].id : i \in 1..Len(edges)}

\* the first edge of the call's id, in stored order
FirstEdgeOfId(call) ==
  LET edges == store[call.hexId].edges
  IN edges[CHOOSE i \in 1..Len(edges) :
             edges[i].id = call.edgeId /\ \A j \in 1..Len(edges) :
                                            edges[j].id = call.edgeId => i <= j]

\* C28: on a node whose edge ids are unique, and over an unchanged store,
\* traverse(node, e, context) succeeds exactly when e is among the edges
\* nextSteps(node, context) returns; when edges share an id traverse uses
\* the first of them in stored order: its guard decides, its target is the
\* destination
C28_TraverseAgreesWithNextSteps ==
  TraverseDone =>
    /\ (last.hexId \notin DOMAIN store \/ UniqueEdgeIds(store[last.hexId])) =>
         last.result.success = (last.edgeId \in OfferedNow(last))
    /\ (last.hexId \in DOMAIN store /\ HasEdge(store[last.hexId], last.edgeId)) =>
         /\ last.result.success
              = evaluateCondition(FirstEdgeOfId(last).when, last.context)
         /\ last.result.destination = FirstEdgeOfId(last).to

\* on a node with an id per edge, a traverse over one of two edges on offer
C28_Witness ==
  /\ TraverseDone /\ last.result.success
  /\ last.hexId \in DOMAIN store /\ UniqueEdgeIds(store[last.hexId])
  /\ last.edgeId \in OfferedNow(last)
  /\ Cardinality(OfferedNow(last)) >= 2

\* two edges share the id: nextSteps offers the second while traverse, on
\* the first, fails
C28_SharedIdCase ==
  /\ TraverseDone /\ ~last.result.success
  /\ last.hexId \in DOMAIN store /\ ~UniqueEdgeIds(store[last.hexId])
  /\ last.edgeId \in OfferedNow(last)

\* a call that failed: a traverse with success = false, a deposit that
\* returned false for want of the node, an enter that returned null
FailedCall(call) ==
  \/ call.op = "traverse" /\ ~call.result.success
  \/ call.op = "deposit" /\ ~call.before.found
  \/ call.op = "enter" /\ ~call.result.found

\* C29: an operation that fails leaves all state unchanged: the store, the
\* durable log and the journeys are as they were
C29_FailureChangesNothing ==
  [][FailedCall(last') =>
       /\ store' = store
       /\ journeyLog' = journeyLog
       /\ journeys' = journeys]_vars

\* an enter with a context returned null, with a step of an earlier call on
\* record
C29_Witness ==
  /\ last.op = "enter" /\ ~last.result.found /\ last.context.some
  /\ journeys # EmptyMap /\ journeyLog # <<>>

\* C30: enter returns the stored node of the id, null when there is none,
\* and does not modify the store; it records exactly one "enter" step
\* carrying context.payload when the node exists and a context is supplied,
\* and no step otherwise
C30_EnterReturnsAndRecords ==
  [][last'.op = "enter" =>
       /\ last'.outcome = "returned"
       /\ last'.result.found = (last'.hexId \in DOMAIN store)
       /\ last'.result.found => last'.result.hex = store[last'.hexId]
       /\ store' = store
       /\ IF last'.result.found /\ last'.context.some
            THEN /\ JourneyGrewByOne(last', journeys, journeys')
                 /\ StepsHeld(journeys') = StepsHeld(journeys) + 1
                 /\ NewestStep(last', journeys').action = "enter"
                 /\ NewestStep(last', journeys').hexId = last'.hexId
                 /\ NewestStep(last', journeys').payload = last'.context.v.payload
                 /\ IF last'.appendOk
                      THEN LogGrewByStep(last', journeyLog, journeyLog', journeys')
                      ELSE journeyLog' = journeyLog
            ELSE journeys' = journeys /\ journeyLog' = journeyLog]_vars

\* an enter of a stored hex recorded a step carrying an object payload
C30_Witness ==
  /\ last.op = "enter" /\ last.result.found /\ last.context.some
  /\ last.context.v.payload.t = "object"
  /\ NewestStep(last, journeys).action = "enter"
  /\ NewestStep(last, journeys).payload = last.context.v.payload

====
